---- MODULE Spec2Model ----
(***************************************************************************)
(* The event-producing YAML 1.1 parser of candiedyaml (src/parser.go) as a  *)
(* state machine.  Every call of yaml_parser_parse is one step: it runs the *)
(* handler of the current parser state to its return (or to a Go run-time   *)
(* panic) and yields at most one event.                                     *)
(*                                                                         *)
(* Conventions.                                                             *)
(*  - A byte slice is a string; appending slices is \o.                     *)
(*  - A mark is its byte offset (lines and columns are copied along with it *)
(*    and never inspected by the parser).                                   *)
(*  - A Go pointer that may be nil is a sequence of length at most one.     *)
(*  - Stacks grow at the end, as append does.                               *)
(*  - A handler is an operator from a parser record to the SET of its       *)
(*    possible outcomes: the only source of choice is the token the         *)
(*    scanner delivers when the handler peeks into an empty queue.          *)
(***************************************************************************)
EXTENDS Integers, Sequences, FiniteSets, TLC

\* The scanner delivers at most this many tokens; the last one it may
\* deliver is forced to be STREAM-END.
MaxTokens == 6

(***************************************************************************)
(* Tokens                                                                  *)
(***************************************************************************)

Token(token_type) ==
    [token_type |-> token_type, start_mark |-> 0, end_mark |-> 0,
     value |-> "", suffix |-> "", prefix |-> "", major |-> 0, minor |-> 0,
     style |-> "ANY", encoding |-> "ANY"]

PlainTokenTypes ==
    {"STREAM-END", "DOCUMENT-START", "DOCUMENT-END",
     "BLOCK-SEQUENCE-START", "BLOCK-MAPPING-START", "BLOCK-END", "BLOCK-ENTRY",
     "FLOW-SEQUENCE-START", "FLOW-SEQUENCE-END", "FLOW-MAPPING-START",
     "FLOW-MAPPING-END", "FLOW-ENTRY", "KEY", "VALUE"}

StreamStartToken == [Token("STREAM-START") EXCEPT !.encoding = "UTF8"]

VersionToken(major, minor) ==
    [Token("VERSION-DIRECTIVE") EXCEPT !.major = major, !.minor = minor]

TagDirectiveToken(handle, prefix) ==
    [Token("TAG-DIRECTIVE") EXCEPT !.value = handle, !.prefix = prefix]

TagToken(handle, suffix) ==
    [Token("TAG") EXCEPT !.value = handle, !.suffix = suffix]

ScalarToken(value, style) ==
    [Token("SCALAR") EXCEPT !.value = value, !.style = style]

AnchorToken(value) == [Token("ANCHOR") EXCEPT !.value = value]

AliasToken(value) == [Token("ALIAS") EXCEPT !.value = value]

\* The token shapes the scanner may deliver (marks are set on delivery).
TokenShapes ==
    {Token(t) : t \in PlainTokenTypes}
      \cup {StreamStartToken}
      \cup {VersionToken(1, 1), VersionToken(1, 2)}
      \cup {TagDirectiveToken("!e!", "tag:e:"), TagDirectiveToken("!", "tag:o:")}
      \cup {TagToken("", "u"), TagToken("!!", "str"), TagToken("!e!", "x"),
            TagToken("!", "")}
      \cup {ScalarToken("x", "PLAIN"), ScalarToken("x", "DOUBLE-QUOTED")}
      \cup {AnchorToken("a"), AliasToken("a")}

\* The distance from the end of one token to the start of the next, and the
\* width of a token: marks are ordered, and a token may have no width (as
\* BLOCK-END or an implicit KEY has).
Gaps == {1}
Widths == {0, 1}

At(shape, start, end) == [shape EXCEPT !.start_mark = start, !.end_mark = end]

(***************************************************************************)
(* Events                                                                  *)
(***************************************************************************)

\* yaml_event_t{}: every field at its zero value.
ZeroEvent ==
    [event_type |-> "NO-EVENT", start_mark |-> 0, end_mark |-> 0,
     encoding |-> "ANY", version_directive |-> <<>>, tag_directives |-> <<>>,
     implicit |-> FALSE, anchor |-> "", tag |-> "", value |-> "",
     quoted_implicit |-> FALSE, style |-> "ANY"]

EventTypes ==
    {"STREAM-START", "STREAM-END", "DOCUMENT-START", "DOCUMENT-END", "ALIAS",
     "SCALAR", "SEQUENCE-START", "SEQUENCE-END", "MAPPING-START", "MAPPING-END"}

Event(event_type, start_mark, end_mark) ==
    [ZeroEvent EXCEPT !.event_type = event_type, !.start_mark = start_mark,
                      !.end_mark = end_mark]

\* The built-in tag directives appended at every document start.
default_tag_directives ==
    << [handle |-> "!", prefix |-> "!"],
       [handle |-> "!!", prefix |-> "tag:yaml.org,2002:"] >>

(***************************************************************************)
(* State                                                                   *)
(***************************************************************************)

VARIABLES
    \* yaml_parser_t
    state, states, marks, tag_directives, tokens_parsed, stream_end_produced,
    error, problem, problem_mark, context, context_mark,
    \* the token queue from tokens_head on, and the scanner behind it
    token_available, tokens, fetched, pos, scenario,
    \* what the latest call of yaml_parser_parse gave back
    event, ret,
    \* history of the run, kept for the properties only
    call_state, window, node_at, open, nesting, opened, emitted, prev_event,
    last_event, events

parser_vars ==
    <<state, states, marks, tag_directives, tokens_parsed, stream_end_produced,
      error, problem, problem_mark, context, context_mark>>

queue_vars == <<token_available, tokens, fetched, pos, scenario>>

history_vars ==
    <<call_state, window, node_at, open, nesting, opened, emitted, prev_event,
      last_event, events>>

vars == <<parser_vars, queue_vars, event, ret, history_vars>>

\* What a call gives back: ret is "true" or "false", or "panic" when the Go
\* run-time stopped the call (nil dereference, index out of range, panic()).
Outcome(p, ev, r) == [p |-> p, event |-> ev, ret |-> r]

Return(p, ev) == Outcome(p, ev, "true")

Fail(p) == Outcome(p, ZeroEvent, "false")

Panic(p) == Outcome(p, ZeroEvent, "panic")

(***************************************************************************)
(* The scanner and the token queue                                         *)
(***************************************************************************)

\* Token streams given in full, and "any": the scanner is free.
Scenarios ==
    {"any", "explicit-document", "tagged-scalar", "plain-scalar", "empty-stream",
     "indentless-sequence", "single-pair", "empty-pair", "tag-only",
     "omitted-key", "key-only"}

\* A token stream from its shapes: every token has width 1 and starts right
\* after the one before it.
RECURSIVE Laid(_, _)
Laid(shapes, start) ==
    IF shapes = <<>> THEN <<>>
    ELSE <<At(Head(shapes), start, start + 1)>> \o Laid(Tail(shapes), start + 1)

Script(name) ==
    CASE name = "explicit-document" ->
           << At(StreamStartToken, 0, 0),
              At(VersionToken(1, 1), 0, 9),
              At(TagDirectiveToken("!e!", "tag:example.com,2024:"), 10, 40),
              At(Token("DOCUMENT-START"), 41, 44),
              At(ScalarToken("x", "PLAIN"), 45, 46),
              At(Token("DOCUMENT-END"), 47, 50),
              At(Token("STREAM-END"), 51, 51) >>
      [] name = "tagged-scalar" ->
           Laid(<< StreamStartToken, TagToken("!", ""), ScalarToken("x", "PLAIN"),
                   Token("STREAM-END") >>, 0)
      [] name = "tag-only" ->
           Laid(<< StreamStartToken, TagToken("!!", "str"), Token("STREAM-END") >>, 0)
      [] name = "plain-scalar" ->
           Laid(<< StreamStartToken, ScalarToken("v", "PLAIN"),
                   Token("STREAM-END") >>, 0)
      [] name = "empty-stream" ->
           Laid(<< StreamStartToken, Token("STREAM-END") >>, 0)
      [] name = "indentless-sequence" ->
           Laid(<< StreamStartToken, Token("BLOCK-MAPPING-START"), Token("KEY"),
                   ScalarToken("a", "PLAIN"), Token("VALUE"),
                   Token("BLOCK-ENTRY"), ScalarToken("1", "PLAIN"),
                   Token("BLOCK-ENTRY"), ScalarToken("2", "PLAIN"),
                   Token("BLOCK-END"), Token("STREAM-END") >>, 0)
      [] name = "single-pair" ->
           Laid(<< StreamStartToken, Token("FLOW-SEQUENCE-START"), Token("KEY"),
                   ScalarToken("k", "PLAIN"), Token("VALUE"),
                   ScalarToken("v", "PLAIN"), Token("FLOW-SEQUENCE-END"),
                   Token("STREAM-END") >>, 0)
      [] name = "empty-pair" ->
           Laid(<< StreamStartToken, Token("FLOW-MAPPING-START"), Token("KEY"),
                   Token("VALUE"), Token("FLOW-MAPPING-END"),
                   Token("STREAM-END") >>, 0)
      [] name = "omitted-key" ->
           Laid(<< StreamStartToken, Token("FLOW-SEQUENCE-START"), Token("KEY"),
                   Token("VALUE"), ScalarToken("v", "PLAIN"),
                   Token("FLOW-SEQUENCE-END"), Token("STREAM-END") >>, 0)
      [] name = "key-only" ->
           Laid(<< StreamStartToken, Token("FLOW-SEQUENCE-START"), Token("KEY"),
                   Token("FLOW-SEQUENCE-END"), Token("STREAM-END") >>, 0)
      [] OTHER -> << >>

\* The scanner's entry point, called on an empty queue.  On success there is
\* a token at the head of the queue; on failure the scanner has latched its
\* error into the parser.  The scanner ends every stream with STREAM-END and
\* is not asked again once that token has been consumed.
yaml_parser_fetch_more_tokens(p) ==
    LET deliver(t) ==
            [ok |-> TRUE,
             p |-> [p EXCEPT !.tokens = <<t>>, !.token_available = TRUE,
                             !.fetched = @ + 1, !.pos = t.end_mark,
                             !.window = Append(@, t)]]
        failed ==
            [ok |-> FALSE,
             p |-> [p EXCEPT !.error = "SCANNER-ERROR",
                             !.problem = "scanner problem",
                             !.problem_mark = p.pos]]
    IN  IF p.stream_end_produced THEN {}
        ELSE IF p.scenario # "any"
        THEN IF p.fetched < Len(p.input)
             THEN {deliver(p.input[p.fetched + 1])}
             ELSE {}
        ELSE IF p.fetched >= MaxTokens THEN {}
        ELSE IF p.fetched = MaxTokens - 1
        THEN {deliver(At(Token("STREAM-END"), p.pos + g, p.pos + g)) : g \in Gaps}
                \cup {failed}
        ELSE {deliver(At(shape, p.pos + g, p.pos + g + w)) :
                  shape \in TokenShapes, g \in Gaps, w \in Widths}
                \cup {failed}

\* peek_token: the head of the queue, or nil (<<>>) when the scanner failed.
peek_token(p) ==
    IF p.token_available
    THEN {[p |-> p, token |-> <<p.tokens[1]>>]}
    ELSE {IF f.ok THEN [p |-> f.p, token |-> <<f.p.tokens[1]>>]
                  ELSE [p |-> f.p, token |-> <<>>] :
              f \in yaml_parser_fetch_more_tokens(p)}

\* Variant: the consumed token's type is not recorded.
skip_token_not_recording(p) ==
    [p EXCEPT !.token_available = FALSE,
              !.tokens_parsed = @ + 1,
              !.tokens = Tail(@)]

skip_token(p) ==
    [p EXCEPT !.token_available = FALSE,
              !.tokens_parsed = @ + 1,
              !.stream_end_produced = (p.tokens[1].token_type = "STREAM-END"),
              !.tokens = Tail(@)]

(***************************************************************************)
(* Errors                                                                  *)
(***************************************************************************)

yaml_parser_set_parser_error(p, problem_, problem_mark_) ==
    [p EXCEPT !.error = "PARSER-ERROR", !.problem = problem_,
              !.problem_mark = problem_mark_]

yaml_parser_set_parser_error_context(p, context_, context_mark_, problem_, problem_mark_) ==
    [p EXCEPT !.error = "PARSER-ERROR", !.context = context_,
              !.context_mark = context_mark_, !.problem = problem_,
              !.problem_mark = problem_mark_]

(***************************************************************************)
(* The stacks                                                              *)
(***************************************************************************)

Top(stack) == stack[Len(stack)]

Pop(stack) == SubSeq(stack, 1, Len(stack) - 1)

\* parser.state = parser.states[len-1]; parser.states = parser.states[:len-1]
\* (index out of range on an empty stack).
PopState(p) == [p EXCEPT !.state = Top(p.states), !.states = Pop(p.states)]

\* parser.marks = parser.marks[:len-1] (slice bounds out of range when empty).
PopMark(p) == [p EXCEPT !.marks = Pop(p.marks)]

\* Variant: the return state is not pushed.
PushState_dropping(p, s) == p

PushState(p, s) == [p EXCEPT !.states = Append(@, s)]

PushMark(p, m) == [p EXCEPT !.marks = Append(@, m)]

(***************************************************************************)
(* Empty scalar                                                            *)
(***************************************************************************)

\* Variant: the scalar is marked as implicit for the quoted style only.
yaml_parser_process_empty_scalar_quoted(p, mark) ==
    Return(p, [Event("SCALAR", mark, mark) EXCEPT
                   !.value = "", !.quoted_implicit = TRUE, !.style = "PLAIN"])

yaml_parser_process_empty_scalar(p, mark) ==
    Return(p, [Event("SCALAR", mark, mark) EXCEPT
                   !.value = "", !.implicit = TRUE, !.style = "PLAIN"])

(***************************************************************************)
(* Directives                                                              *)
(***************************************************************************)

yaml_parser_append_tag_directive(p, value, allow_duplicates, mark) ==
    IF \E i \in 1..Len(p.tag_directives) : p.tag_directives[i].handle = value.handle
    THEN IF allow_duplicates
         THEN [ok |-> TRUE, p |-> p]
         ELSE [ok |-> FALSE,
               p |-> yaml_parser_set_parser_error(p, "found duplicate %TAG directive", mark)]
    ELSE [ok |-> TRUE, p |-> [p EXCEPT !.tag_directives = Append(@, value)]]

\* Line 1176 declares a NEW variable ("token := peek_token(parser)") inside
\* the loop body: the token peeked after a directive is dropped at the end of
\* the iteration, and the loop condition and the next iteration still read
\* the token of line 1136 (a pointer into the queue's slot of the directive
\* that was just consumed, which the queue keeps as it is).
TokenAfterAdvance(outer, inner) == outer

Directives(ok, p, version_directive, tag_directives_) ==
    [ok |-> ok, p |-> p, version_directive |-> version_directive,
     tag_directives |-> tag_directives_]

RECURSIVE append_default_tag_directives(_, _, _)
append_default_tag_directives(p, i, mark) ==
    IF i > Len(default_tag_directives) THEN [ok |-> TRUE, p |-> p]
    ELSE LET a == yaml_parser_append_tag_directive(p, default_tag_directives[i], TRUE, mark)
         IN  IF ~a.ok THEN a ELSE append_default_tag_directives(a.p, i + 1, mark)

RECURSIVE process_directives_loop(_, _, _, _)
process_directives_loop(p, token, version_directive, tag_directives_) ==
    LET advance(q, vd, td) ==
            UNION {IF pk.token = <<>>
                   THEN {Directives(FALSE, pk.p, <<>>, <<>>)}
                   ELSE process_directives_loop(
                            pk.p, TokenAfterAdvance(token, pk.token[1]), vd, td) :
                       pk \in peek_token(skip_token(q))}
    IN  IF token.token_type = "VERSION-DIRECTIVE"
        THEN IF version_directive # <<>>
             THEN {Directives(FALSE,
                       yaml_parser_set_parser_error(p,
                           "found duplicate %YAML directive", token.start_mark),
                       <<>>, <<>>)}
             ELSE IF token.major # 1 \/ token.minor # 1
             THEN {Directives(FALSE,
                       yaml_parser_set_parser_error(p,
                           "found incompatible YAML document", token.start_mark),
                       <<>>, <<>>)}
             ELSE advance(p, <<[major |-> token.major, minor |-> token.minor]>>,
                          tag_directives_)
        ELSE IF token.token_type = "TAG-DIRECTIVE"
        THEN LET value == [handle |-> token.value, prefix |-> token.prefix]
                 a == yaml_parser_append_tag_directive(p, value, FALSE, token.start_mark)
             IN  IF ~a.ok
                 THEN {Directives(FALSE, a.p, <<>>, <<>>)}
                 ELSE advance(a.p, version_directive, Append(tag_directives_, value))
        ELSE LET d == append_default_tag_directives(p, 1, token.start_mark)
             IN  {Directives(d.ok, d.p, version_directive, tag_directives_)}

yaml_parser_process_directives(p) ==
    UNION {IF pk.token = <<>>
           THEN {Directives(FALSE, pk.p, <<>>, <<>>)}
           ELSE process_directives_loop(pk.p, pk.token[1], <<>>, <<>>) :
               pk \in peek_token(p)}

(***************************************************************************)
(* Nodes                                                                   *)
(***************************************************************************)

\* The locals of yaml_parser_parse_node once the properties are read.
\* status is "ok", "false" (the scanner failed) or "panic".
Properties(status, p, token, anchor, tag_handle, tag_suffix, tag_mark, start_mark, end_mark) ==
    [status |-> status, p |-> p, token |-> token, anchor |-> anchor,
     tag_handle |-> tag_handle, tag_suffix |-> tag_suffix, tag_mark |-> tag_mark,
     start_mark |-> start_mark, end_mark |-> end_mark]

\* "var tag_handle *[]byte" (line 430): a pointer, nil, and never pointed
\* anywhere before "*tag_handle = token.value" (lines 443, 454) stores
\* through it: storing through nil is a run-time panic.
StoreThrough(pointer, value) ==
    IF pointer = <<>> THEN [panic |-> TRUE, pointer |-> pointer]
                      ELSE [panic |-> FALSE, pointer |-> <<value>>]

\* Lines 428-473: ANCHOR TAG? | TAG ANCHOR?
parse_node_properties(p, token) ==
    LET tag_handle == <<>>
        none == Properties("ok", p, token, "", tag_handle, "", 0,
                           token.start_mark, token.start_mark)
        stopped(status, q) ==
            Properties(status, q, token, "", tag_handle, "", 0, 0, 0)
    IN  IF token.token_type = "ANCHOR"
        THEN UNION {
               IF pk.token = <<>> THEN {stopped("false", pk.p)}
               ELSE IF pk.token[1].token_type = "TAG"
               THEN LET st == StoreThrough(tag_handle, pk.token[1].value)
                    IN  IF st.panic THEN {stopped("panic", pk.p)}
                        ELSE {IF pk2.token = <<>> THEN stopped("false", pk2.p)
                              ELSE Properties("ok", pk2.p, pk2.token[1], token.value,
                                       st.pointer, pk.token[1].suffix,
                                       pk.token[1].start_mark,
                                       token.start_mark, pk.token[1].end_mark) :
                                  pk2 \in peek_token(skip_token(pk.p))}
               ELSE {Properties("ok", pk.p, pk.token[1], token.value, tag_handle,
                         "", 0, token.start_mark, token.end_mark)} :
                   pk \in peek_token(skip_token(p))}
        ELSE IF token.token_type = "TAG"
        THEN LET st == StoreThrough(tag_handle, token.value)
             IN  IF st.panic THEN {stopped("panic", p)}
                 ELSE UNION {
                        IF pk.token = <<>> THEN {stopped("false", pk.p)}
                        ELSE IF pk.token[1].token_type = "ANCHOR"
                        THEN {IF pk2.token = <<>> THEN stopped("false", pk2.p)
                              ELSE Properties("ok", pk2.p, pk2.token[1],
                                       pk.token[1].value, st.pointer, token.suffix,
                                       token.start_mark, token.start_mark,
                                       pk.token[1].end_mark) :
                                  pk2 \in peek_token(skip_token(pk.p))}
                        ELSE {Properties("ok", pk.p, pk.token[1], "", st.pointer,
                                  token.suffix, token.start_mark,
                                  token.start_mark, token.end_mark)} :
                            pk \in peek_token(skip_token(p))}
        ELSE {none}

\* Lines 475-499: the tag of the node; undefined when a non-empty handle
\* leaves the tag empty (the caller fails with "found undefined tag handle").
resolve_tag(directives, tag_handle, tag_suffix) ==
    IF tag_handle = <<>> THEN [tag |-> "", undefined |-> FALSE]
    ELSE IF tag_handle[1] = "" THEN [tag |-> tag_suffix, undefined |-> FALSE]
    ELSE LET hits == {i \in 1..Len(directives) : directives[i].handle = tag_handle[1]}
             tag == IF hits = {} THEN ""
                    ELSE LET first == CHOOSE i \in hits : \A j \in hits : i <= j
                         IN  directives[first].prefix \o tag_suffix
         IN  [tag |-> tag, undefined |-> (tag = "")]

\* Lines 501-630: the event of the node, on the token after the properties.
parse_node_content(p, token, block, indentless_sequence, anchor, tag, start_mark, end_mark) ==
    LET implicit == (tag = "")
        collection(event_type, style, next_state) ==
            {Return([p EXCEPT !.state = next_state],
                    [Event(event_type, start_mark, token.end_mark) EXCEPT
                        !.anchor = anchor, !.tag = tag, !.implicit = implicit,
                        !.style = style])}
    IN  IF indentless_sequence /\ token.token_type = "BLOCK-ENTRY"
        THEN collection("SEQUENCE-START", "BLOCK-SEQUENCE", "INDENTLESS-SEQUENCE-ENTRY")
        ELSE IF token.token_type = "SCALAR"
        THEN LET plain_implicit ==
                     (token.style = "PLAIN" /\ tag = "") \/ tag = "!"
                 quoted_implicit == ~plain_implicit /\ tag = ""
             IN  IF p.states = <<>> THEN {Panic(p)}
                 ELSE {Return(skip_token(PopState(p)),
                              [Event("SCALAR", start_mark, token.end_mark) EXCEPT
                                  !.anchor = anchor, !.tag = tag,
                                  !.value = token.value,
                                  !.implicit = plain_implicit,
                                  !.quoted_implicit = quoted_implicit,
                                  !.style = token.style])}
        ELSE IF token.token_type = "FLOW-SEQUENCE-START"
        THEN collection("SEQUENCE-START", "FLOW-SEQUENCE", "FLOW-SEQUENCE-FIRST-ENTRY")
        ELSE IF token.token_type = "FLOW-MAPPING-START"
        THEN collection("MAPPING-START", "FLOW-MAPPING", "FLOW-MAPPING-FIRST-KEY")
        ELSE IF block /\ token.token_type = "BLOCK-SEQUENCE-START"
        THEN collection("SEQUENCE-START", "BLOCK-SEQUENCE", "BLOCK-SEQUENCE-FIRST-ENTRY")
        ELSE IF block /\ token.token_type = "BLOCK-MAPPING-START"
        THEN collection("MAPPING-START", "BLOCK-MAPPING", "BLOCK-MAPPING-FIRST-KEY")
        ELSE IF anchor # "" \/ tag # ""
        THEN IF p.states = <<>> THEN {Panic(p)}
             ELSE {Return(PopState(p),
                          [Event("SCALAR", start_mark, end_mark) EXCEPT
                              !.anchor = anchor, !.tag = tag,
                              !.implicit = implicit, !.quoted_implicit = FALSE,
                              !.style = "PLAIN"])}
        ELSE {Fail(yaml_parser_set_parser_error_context(p,
                  IF block THEN "while parsing a block node"
                           ELSE "while parsing a flow node",
                  start_mark,
                  "did not find expected node content", token.start_mark))}

yaml_parser_parse_node(p, block, indentless_sequence) ==
    UNION {
      IF pk.token = <<>> THEN {Fail(pk.p)}
      ELSE LET q == [pk.p EXCEPT !.node_at = Len(pk.p.window)]
               token == pk.token[1]
           IN  IF token.token_type = "ALIAS"
               THEN IF q.states = <<>> THEN {Panic(q)}
                    ELSE {Return(skip_token(PopState(q)),
                                 [Event("ALIAS", token.start_mark, token.end_mark)
                                     EXCEPT !.anchor = token.value])}
               ELSE UNION {
                      IF pr.status = "false" THEN {Fail(pr.p)}
                      ELSE IF pr.status = "panic" THEN {Panic(pr.p)}
                      ELSE LET r == resolve_tag(pr.p.tag_directives,
                                                pr.tag_handle, pr.tag_suffix)
                           IN  IF r.undefined
                               THEN {Fail(yaml_parser_set_parser_error_context(pr.p,
                                         "while parsing a node", pr.start_mark,
                                         "found undefined tag handle", pr.tag_mark))}
                               ELSE parse_node_content(pr.p, pr.token, block,
                                        indentless_sequence, pr.anchor, r.tag,
                                        pr.start_mark, pr.end_mark) :
                          pr \in parse_node_properties(q, token)} :
          pk \in peek_token(p)}

(***************************************************************************)
(* Stream and documents                                                    *)
(***************************************************************************)

yaml_parser_parse_stream_start(p) ==
    UNION {
      IF pk.token = <<>> THEN {Fail(pk.p)}
      ELSE LET token == pk.token[1]
           IN  IF token.token_type # "STREAM-START"
               THEN {Fail(yaml_parser_set_parser_error(pk.p,
                         "did not find expected <stream-start>", token.start_mark))}
               ELSE {Return(skip_token([pk.p EXCEPT !.state = "IMPLICIT-DOCUMENT-START"]),
                            [Event("STREAM-START", token.start_mark, token.end_mark)
                                EXCEPT !.encoding = token.encoding])} :
          pk \in peek_token(p)}

\* Lines 238-246: the DOCUMENT-END tokens before an explicit document.
RECURSIVE skip_document_ends(_, _)
skip_document_ends(p, token) ==
    IF token.token_type = "DOCUMENT-END"
    THEN UNION {IF pk.token = <<>> THEN {pk}
                ELSE skip_document_ends(pk.p, pk.token[1]) :
                    pk \in peek_token(skip_token(p))}
    ELSE {[p |-> p, token |-> <<token>>]}

\* Lines 250-312, on the token that follows the skipped DOCUMENT-END tokens.
parse_document_start_at(p, token, implicit) ==
    IF implicit /\ token.token_type \notin
           {"VERSION-DIRECTIVE", "TAG-DIRECTIVE", "DOCUMENT-START", "STREAM-END"}
    THEN {IF ~d.ok THEN Fail(d.p)
          ELSE Return([PushState(d.p, "DOCUMENT-END") EXCEPT !.state = "BLOCK-NODE"],
                      [Event("DOCUMENT-START", token.start_mark, token.end_mark)
                          EXCEPT !.implicit = TRUE]) :
              d \in yaml_parser_process_directives(p)}
    ELSE IF token.token_type # "STREAM-END"
    THEN UNION {
           IF ~d.ok THEN {Fail(d.p)}
           ELSE {IF pk.token = <<>> THEN Fail(pk.p)
                 ELSE IF pk.token[1].token_type # "DOCUMENT-START"
                 THEN Fail(yaml_parser_set_parser_error(pk.p,
                          "did not find expected <document start>",
                          pk.token[1].start_mark))
                 ELSE Return(
                          skip_token([PushState(pk.p, "DOCUMENT-END")
                                         EXCEPT !.state = "DOCUMENT-CONTENT"]),
                          [Event("DOCUMENT-START", token.start_mark,
                                 pk.token[1].end_mark) EXCEPT
                              !.version_directive = d.version_directive,
                              !.tag_directives = d.tag_directives,
                              !.implicit = FALSE]) :
                     pk \in peek_token(d.p)} :
               d \in yaml_parser_process_directives(p)}
    ELSE {Return(skip_token([p EXCEPT !.state = "END"]),
                 Event("STREAM-END", token.start_mark, token.end_mark))}

\* Variant: a document without header is accepted after the first one too.
yaml_parser_parse_document_start_as_implicit(p, implicit) ==
    UNION {
      IF pk.token = <<>> THEN {Fail(pk.p)}
      ELSE UNION {IF sk.token = <<>> THEN {Fail(sk.p)}
                  ELSE parse_document_start_at(sk.p, sk.token[1], TRUE) :
                      sk \in IF implicit THEN {pk}
                             ELSE skip_document_ends(pk.p, pk.token[1])} :
          pk \in peek_token(p)}

\* Variant: the token after the skipped DOCUMENT-END tokens is always handled
\* as that of an explicit document.
yaml_parser_parse_document_start_as_explicit(p, implicit) ==
    UNION {
      IF pk.token = <<>> THEN {Fail(pk.p)}
      ELSE UNION {IF sk.token = <<>> THEN {Fail(sk.p)}
                  ELSE parse_document_start_at(sk.p, sk.token[1], FALSE) :
                      sk \in IF implicit THEN {pk}
                             ELSE skip_document_ends(pk.p, pk.token[1])} :
          pk \in peek_token(p)}

yaml_parser_parse_document_start(p, implicit) ==
    UNION {
      IF pk.token = <<>> THEN {Fail(pk.p)}
      ELSE UNION {IF sk.token = <<>> THEN {Fail(sk.p)}
                  ELSE parse_document_start_at(sk.p, sk.token[1], implicit) :
                      sk \in IF implicit THEN {pk}
                             ELSE skip_document_ends(pk.p, pk.token[1])} :
          pk \in peek_token(p)}

\* Variant: the token found in place of the root node is consumed.
yaml_parser_parse_document_content_consuming(p) ==
    UNION {
      IF pk.token = <<>> THEN {Fail(pk.p)}
      ELSE IF pk.token[1].token_type \in
                  {"VERSION-DIRECTIVE", "TAG-DIRECTIVE", "DOCUMENT-START",
                   "DOCUMENT-END", "STREAM-END"}
      THEN IF pk.p.states = <<>> THEN {Panic(pk.p)}
           ELSE {yaml_parser_process_empty_scalar(skip_token(PopState(pk.p)),
                                                  pk.token[1].start_mark)}
      ELSE yaml_parser_parse_node(pk.p, TRUE, FALSE) :
          pk \in peek_token(p)}

yaml_parser_parse_document_content(p) ==
    UNION {
      IF pk.token = <<>> THEN {Fail(pk.p)}
      ELSE IF pk.token[1].token_type \in
                  {"VERSION-DIRECTIVE", "TAG-DIRECTIVE", "DOCUMENT-START",
                   "DOCUMENT-END", "STREAM-END"}
      THEN IF pk.p.states = <<>> THEN {Panic(pk.p)}
           ELSE {yaml_parser_process_empty_scalar(PopState(pk.p),
                                                  pk.token[1].start_mark)}
      ELSE yaml_parser_parse_node(pk.p, TRUE, FALSE) :
          pk \in peek_token(p)}

\* Variant: the event ends at the end of the head token even when that token
\* is left in the queue.
yaml_parser_parse_document_end_wide(p) ==
    UNION {
      IF pk.token = <<>> THEN {Fail(pk.p)}
      ELSE LET token == pk.token[1]
               explicit == token.token_type = "DOCUMENT-END"
               q == IF explicit THEN skip_token(pk.p) ELSE pk.p
           IN  {Return([q EXCEPT !.tag_directives = <<>>, !.state = "DOCUMENT-START"],
                       [Event("DOCUMENT-END", token.start_mark, token.end_mark)
                           EXCEPT !.implicit = ~explicit])} :
          pk \in peek_token(p)}

\* Variant: a DOCUMENT-END token is left in the queue and the document ends
\* as if it were not there.
yaml_parser_parse_document_end_leaving_token(p) ==
    UNION {
      IF pk.token = <<>> THEN {Fail(pk.p)}
      ELSE LET token == pk.token[1]
           IN  {Return([pk.p EXCEPT !.tag_directives = <<>>, !.state = "DOCUMENT-START"],
                       [Event("DOCUMENT-END", token.start_mark, token.start_mark)
                           EXCEPT !.implicit = TRUE])} :
          pk \in peek_token(p)}

\* Variant: the tag directives of the document are kept.
yaml_parser_parse_document_end_keeping_directives(p) ==
    UNION {
      IF pk.token = <<>> THEN {Fail(pk.p)}
      ELSE LET token == pk.token[1]
               explicit == token.token_type = "DOCUMENT-END"
               q == IF explicit THEN skip_token(pk.p) ELSE pk.p
           IN  {Return([q EXCEPT !.state = "DOCUMENT-START"],
                       [Event("DOCUMENT-END", token.start_mark,
                              IF explicit THEN token.end_mark ELSE token.start_mark)
                           EXCEPT !.implicit = ~explicit])} :
          pk \in peek_token(p)}

yaml_parser_parse_document_end(p) ==
    UNION {
      IF pk.token = <<>> THEN {Fail(pk.p)}
      ELSE LET token == pk.token[1]
               explicit == token.token_type = "DOCUMENT-END"
               q == IF explicit THEN skip_token(pk.p) ELSE pk.p
           IN  {Return([q EXCEPT !.tag_directives = <<>>, !.state = "DOCUMENT-START"],
                       [Event("DOCUMENT-END", token.start_mark,
                              IF explicit THEN token.end_mark ELSE token.start_mark)
                           EXCEPT !.implicit = ~explicit])} :
          pk \in peek_token(p)}

(***************************************************************************)
(* Block collections                                                       *)
(***************************************************************************)

\* Variant: the opening token is consumed and no mark is pushed.
first_entry_without_mark(p, first) ==
    IF ~first THEN {Outcome(p, ZeroEvent, "true")}
    ELSE {IF pk.token = <<>> THEN Panic(pk.p)
          ELSE Outcome(skip_token(pk.p), ZeroEvent, "true") :
              pk \in peek_token(p)}

\* "if first { token := peek_token(parser); parser.marks = append(...,
\* token.start_mark); skip_token(parser) }": the token is used unchecked.
first_entry(p, first) ==
    IF ~first THEN {Outcome(p, ZeroEvent, "true")}
    ELSE {IF pk.token = <<>> THEN Panic(pk.p)
          ELSE Outcome(skip_token(PushMark(pk.p, pk.token[1].start_mark)),
                       ZeroEvent, "true") :
              pk \in peek_token(p)}

\* Variant: the mark of the collection is left on the mark stack.
close_collection_keeping_mark(p, token, event_type) ==
    IF p.states = <<>> THEN {Panic(p)}
    ELSE {Return(skip_token(PopState(p)),
                 Event(event_type, token.start_mark, token.end_mark))}

\* The end of a collection that has a mark: pop the state and the mark, emit
\* the end event on the closing token and consume it.
close_collection(p, token, event_type) ==
    IF p.states = <<>> THEN {Panic(p)}
    ELSE IF p.marks = <<>> THEN {Panic(PopState(p))}
    ELSE {Return(skip_token(PopMark(PopState(p))),
                 Event(event_type, token.start_mark, token.end_mark))}

\* Variant: the context is the mark of the outermost open collection.
collection_error_outermost(p, token, context_, problem_) ==
    IF p.marks = <<>> THEN {Panic(p)}
    ELSE {Fail(yaml_parser_set_parser_error_context(PopMark(p),
              context_, p.marks[1], problem_, token.start_mark))}

\* "mark := parser.marks[len-1]; parser.marks = parser.marks[:len-1];
\* return yaml_parser_set_parser_error_context(...)"
collection_error(p, token, context_, problem_) ==
    IF p.marks = <<>> THEN {Panic(p)}
    ELSE {Fail(yaml_parser_set_parser_error_context(PopMark(p),
              context_, Top(p.marks), problem_, token.start_mark))}

yaml_parser_parse_block_sequence_entry(p, first) ==
    UNION {
      IF f.ret = "panic" THEN {f}
      ELSE UNION {
        IF pk.token = <<>> THEN {Fail(pk.p)}
        ELSE LET token == pk.token[1]
             IN  IF token.token_type = "BLOCK-ENTRY"
                 THEN UNION {
                        IF pk2.token = <<>> THEN {Fail(pk2.p)}
                        ELSE IF pk2.token[1].token_type \notin {"BLOCK-ENTRY", "BLOCK-END"}
                        THEN yaml_parser_parse_node(
                                 PushState(pk2.p, "BLOCK-SEQUENCE-ENTRY"), TRUE, FALSE)
                        ELSE {yaml_parser_process_empty_scalar(
                                  [pk2.p EXCEPT !.state = "BLOCK-SEQUENCE-ENTRY"],
                                  token.end_mark)} :
                            pk2 \in peek_token(skip_token(pk.p))}
                 ELSE IF token.token_type = "BLOCK-END"
                 THEN close_collection(pk.p, token, "SEQUENCE-END")
                 ELSE collection_error(pk.p, token,
                          "while parsing a block collection",
                          "did not find expected '-' indicator") :
            pk \in peek_token(f.p)} :
        f \in first_entry(p, first)}

\* Variant: the token that ends the sequence is consumed, as BLOCK-END is at
\* the end of a block sequence.
yaml_parser_parse_indentless_sequence_entry_consuming_end(p) ==
    UNION {
      IF pk.token = <<>> THEN {Fail(pk.p)}
      ELSE LET token == pk.token[1]
           IN  IF token.token_type = "BLOCK-ENTRY"
               THEN UNION {
                      IF pk2.token = <<>> THEN {Fail(pk2.p)}
                      ELSE IF pk2.token[1].token_type \notin
                                  {"BLOCK-ENTRY", "KEY", "VALUE", "BLOCK-END"}
                      THEN yaml_parser_parse_node(
                               PushState(pk2.p, "INDENTLESS-SEQUENCE-ENTRY"), TRUE, FALSE)
                      ELSE {yaml_parser_process_empty_scalar(
                                [pk2.p EXCEPT !.state = "INDENTLESS-SEQUENCE-ENTRY"],
                                token.end_mark)} :
                          pk2 \in peek_token(skip_token(pk.p))}
               ELSE IF pk.p.states = <<>> THEN {Panic(pk.p)}
               ELSE {Return(skip_token(PopState(pk.p)),
                            Event("SEQUENCE-END", token.start_mark, token.start_mark))} :
          pk \in peek_token(p)}

yaml_parser_parse_indentless_sequence_entry(p) ==
    UNION {
      IF pk.token = <<>> THEN {Fail(pk.p)}
      ELSE LET token == pk.token[1]
           IN  IF token.token_type = "BLOCK-ENTRY"
               THEN UNION {
                      IF pk2.token = <<>> THEN {Fail(pk2.p)}
                      ELSE IF pk2.token[1].token_type \notin
                                  {"BLOCK-ENTRY", "KEY", "VALUE", "BLOCK-END"}
                      THEN yaml_parser_parse_node(
                               PushState(pk2.p, "INDENTLESS-SEQUENCE-ENTRY"), TRUE, FALSE)
                      ELSE {yaml_parser_process_empty_scalar(
                                [pk2.p EXCEPT !.state = "INDENTLESS-SEQUENCE-ENTRY"],
                                token.end_mark)} :
                          pk2 \in peek_token(skip_token(pk.p))}
               ELSE IF pk.p.states = <<>> THEN {Panic(pk.p)}
               ELSE {Return(PopState(pk.p),
                            Event("SEQUENCE-END", token.start_mark, token.start_mark))} :
          pk \in peek_token(p)}

yaml_parser_parse_block_mapping_key(p, first) ==
    UNION {
      IF f.ret = "panic" THEN {f}
      ELSE UNION {
        IF pk.token = <<>> THEN {Fail(pk.p)}
        ELSE LET token == pk.token[1]
             IN  IF token.token_type = "KEY"
                 THEN UNION {
                        IF pk2.token = <<>> THEN {Fail(pk2.p)}
                        ELSE IF pk2.token[1].token_type \notin {"KEY", "VALUE", "BLOCK-END"}
                        THEN yaml_parser_parse_node(
                                 PushState(pk2.p, "BLOCK-MAPPING-VALUE"), TRUE, TRUE)
                        ELSE {yaml_parser_process_empty_scalar(
                                  [pk2.p EXCEPT !.state = "BLOCK-MAPPING-VALUE"],
                                  token.end_mark)} :
                            pk2 \in peek_token(skip_token(pk.p))}
                 ELSE IF token.token_type = "BLOCK-END"
                 THEN close_collection(pk.p, token, "MAPPING-END")
                 ELSE collection_error(pk.p, token,
                          "while parsing a block mapping",
                          "did not find expected key") :
            pk \in peek_token(f.p)} :
        f \in first_entry(p, first)}

yaml_parser_parse_block_mapping_value(p) ==
    UNION {
      IF pk.token = <<>> THEN {Fail(pk.p)}
      ELSE LET token == pk.token[1]
           IN  IF token.token_type = "VALUE"
               THEN UNION {
                      IF pk2.token = <<>> THEN {Fail(pk2.p)}
                      ELSE IF pk2.token[1].token_type \notin {"KEY", "VALUE", "BLOCK-END"}
                      THEN yaml_parser_parse_node(
                               PushState(pk2.p, "BLOCK-MAPPING-KEY"), TRUE, TRUE)
                      ELSE {yaml_parser_process_empty_scalar(
                                [pk2.p EXCEPT !.state = "BLOCK-MAPPING-KEY"],
                                token.end_mark)} :
                          pk2 \in peek_token(skip_token(pk.p))}
               ELSE {yaml_parser_process_empty_scalar(
                         [pk.p EXCEPT !.state = "BLOCK-MAPPING-KEY"],
                         token.start_mark)} :
          pk \in peek_token(p)}

(***************************************************************************)
(* Flow collections                                                        *)
(***************************************************************************)

\* Variant: the separator is optional.
flow_separator_optional(p, token, first, closing, context_, problem_) ==
    IF token.token_type = closing \/ first \/ token.token_type # "FLOW-ENTRY"
    THEN {[status |-> "ok", p |-> p, token |-> token]}
    ELSE {IF pk.token = <<>>
          THEN [status |-> "false", p |-> pk.p, token |-> token]
          ELSE [status |-> "ok", p |-> pk.p, token |-> pk.token[1]] :
              pk \in peek_token(skip_token(p))}

\* Lines 866-882 and 1021-1037: before every entry but the first, a token
\* that does not close the collection must be FLOW-ENTRY, which is consumed.
\* Gives the parser and the token the handler goes on with (status "ok"), or
\* how the handler ended.
flow_separator(p, token, first, closing, context_, problem_) ==
    IF token.token_type = closing \/ first
    THEN {[status |-> "ok", p |-> p, token |-> token]}
    ELSE IF token.token_type = "FLOW-ENTRY"
    THEN {IF pk.token = <<>>
          THEN [status |-> "false", p |-> pk.p, token |-> token]
          ELSE [status |-> "ok", p |-> pk.p, token |-> pk.token[1]] :
              pk \in peek_token(skip_token(p))}
    ELSE IF p.marks = <<>>
    THEN {[status |-> "panic", p |-> p, token |-> token]}
    ELSE {[status |-> "false",
           p |-> yaml_parser_set_parser_error_context(PopMark(p),
                     context_, Top(p.marks), problem_, token.start_mark),
           token |-> token]}

yaml_parser_parse_flow_sequence_entry(p, first) ==
    UNION {
      IF f.ret = "panic" THEN {f}
      ELSE UNION {
        IF pk.token = <<>> THEN {Fail(pk.p)}
        ELSE UNION {
          IF sep.status = "false" THEN {Fail(sep.p)}
          ELSE IF sep.status = "panic" THEN {Panic(sep.p)}
          ELSE IF pk.token[1].token_type # "FLOW-SEQUENCE-END"
                  /\ sep.token.token_type = "KEY"
          THEN {Return(skip_token([sep.p EXCEPT
                           !.state = "FLOW-SEQUENCE-ENTRY-MAPPING-KEY"]),
                       [Event("MAPPING-START", sep.token.start_mark,
                              sep.token.end_mark) EXCEPT
                           !.implicit = TRUE, !.style = "FLOW-MAPPING"])}
          ELSE IF pk.token[1].token_type # "FLOW-SEQUENCE-END"
                  /\ sep.token.token_type # "FLOW-SEQUENCE-END"
          THEN yaml_parser_parse_node(
                   PushState(sep.p, "FLOW-SEQUENCE-ENTRY"), FALSE, FALSE)
          ELSE close_collection(sep.p, sep.token, "SEQUENCE-END") :
              sep \in flow_separator(pk.p, pk.token[1], first, "FLOW-SEQUENCE-END",
                         "while parsing a flow sequence",
                         "did not find expected ',' or ']'")} :
            pk \in peek_token(f.p)} :
        f \in first_entry(p, first)}

\* Variant: the key node returns to the end of the pair instead of its value.
yaml_parser_parse_flow_sequence_entry_mapping_key_without_value(p) ==
    UNION {
      IF pk.token = <<>> THEN {Fail(pk.p)}
      ELSE LET token == pk.token[1]
           IN  IF token.token_type \notin {"VALUE", "FLOW-ENTRY", "FLOW-SEQUENCE-END"}
               THEN yaml_parser_parse_node(
                        PushState(pk.p, "FLOW-SEQUENCE-ENTRY-MAPPING-END"),
                        FALSE, FALSE)
               ELSE {yaml_parser_process_empty_scalar(
                         [skip_token(pk.p) EXCEPT
                             !.state = "FLOW-SEQUENCE-ENTRY-MAPPING-END"],
                         token.end_mark)} :
          pk \in peek_token(p)}

yaml_parser_parse_flow_sequence_entry_mapping_key(p) ==
    UNION {
      IF pk.token = <<>> THEN {Fail(pk.p)}
      ELSE LET token == pk.token[1]
           IN  IF token.token_type \notin {"VALUE", "FLOW-ENTRY", "FLOW-SEQUENCE-END"}
               THEN yaml_parser_parse_node(
                        PushState(pk.p, "FLOW-SEQUENCE-ENTRY-MAPPING-VALUE"),
                        FALSE, FALSE)
               ELSE {yaml_parser_process_empty_scalar(
                         [skip_token(pk.p) EXCEPT
                             !.state = "FLOW-SEQUENCE-ENTRY-MAPPING-VALUE"],
                         token.end_mark)} :
          pk \in peek_token(p)}

yaml_parser_parse_flow_sequence_entry_mapping_value(p) ==
    UNION {
      IF pk.token = <<>> THEN {Fail(pk.p)}
      ELSE LET empty(q, token) ==
                   yaml_parser_process_empty_scalar(
                       [q EXCEPT !.state = "FLOW-SEQUENCE-ENTRY-MAPPING-END"],
                       token.start_mark)
           IN  IF pk.token[1].token_type = "VALUE"
               THEN UNION {
                      IF pk2.token = <<>> THEN {Fail(pk2.p)}
                      ELSE IF pk2.token[1].token_type \notin
                                  {"FLOW-ENTRY", "FLOW-SEQUENCE-END"}
                      THEN yaml_parser_parse_node(
                               PushState(pk2.p, "FLOW-SEQUENCE-ENTRY-MAPPING-END"),
                               FALSE, FALSE)
                      ELSE {empty(pk2.p, pk2.token[1])} :
                          pk2 \in peek_token(skip_token(pk.p))}
               ELSE {empty(pk.p, pk.token[1])} :
          pk \in peek_token(p)}

\* Variant: the state is left as it is.
yaml_parser_parse_flow_sequence_entry_mapping_end_staying(p) ==
    UNION {
      IF pk.token = <<>> THEN {Fail(pk.p)}
      ELSE {Return(pk.p,
                   Event("MAPPING-END", pk.token[1].start_mark,
                         pk.token[1].start_mark))} :
          pk \in peek_token(p)}

yaml_parser_parse_flow_sequence_entry_mapping_end(p) ==
    UNION {
      IF pk.token = <<>> THEN {Fail(pk.p)}
      ELSE {Return([pk.p EXCEPT !.state = "FLOW-SEQUENCE-ENTRY"],
                   Event("MAPPING-END", pk.token[1].start_mark,
                         pk.token[1].start_mark))} :
          pk \in peek_token(p)}

yaml_parser_parse_flow_mapping_key(p, first) ==
    UNION {
      IF f.ret = "panic" THEN {f}
      ELSE UNION {
        IF pk.token = <<>> THEN {Fail(pk.p)}
        ELSE UNION {
          IF sep.status = "false" THEN {Fail(sep.p)}
          ELSE IF sep.status = "panic" THEN {Panic(sep.p)}
          ELSE IF pk.token[1].token_type # "FLOW-MAPPING-END"
                  /\ sep.token.token_type = "KEY"
          THEN UNION {
                 IF pk2.token = <<>> THEN {Fail(pk2.p)}
                 ELSE IF pk2.token[1].token_type \notin
                             {"VALUE", "FLOW-ENTRY", "FLOW-MAPPING-END"}
                 THEN yaml_parser_parse_node(
                          PushState(pk2.p, "FLOW-MAPPING-VALUE"), FALSE, FALSE)
                 ELSE {yaml_parser_process_empty_scalar(
                           [pk2.p EXCEPT !.state = "FLOW-MAPPING-VALUE"],
                           pk2.token[1].start_mark)} :
                     pk2 \in peek_token(skip_token(sep.p))}
          ELSE IF pk.token[1].token_type # "FLOW-MAPPING-END"
                  /\ sep.token.token_type # "FLOW-MAPPING-END"
          THEN yaml_parser_parse_node(
                   PushState(sep.p, "FLOW-MAPPING-EMPTY-VALUE"), FALSE, FALSE)
          ELSE close_collection(sep.p, sep.token, "MAPPING-END") :
              sep \in flow_separator(pk.p, pk.token[1], first, "FLOW-MAPPING-END",
                         "while parsing a flow mapping",
                         "did not find expected ',' or '}'")} :
            pk \in peek_token(f.p)} :
        f \in first_entry(p, first)}

yaml_parser_parse_flow_mapping_value(p, empty) ==
    UNION {
      IF pk.token = <<>> THEN {Fail(pk.p)}
      ELSE LET none(q, token) ==
                   yaml_parser_process_empty_scalar(
                       [q EXCEPT !.state = "FLOW-MAPPING-KEY"], token.start_mark)
           IN  IF empty THEN {none(pk.p, pk.token[1])}
               ELSE IF pk.token[1].token_type = "VALUE"
               THEN UNION {
                      IF pk2.token = <<>> THEN {Fail(pk2.p)}
                      ELSE IF pk2.token[1].token_type \notin
                                  {"FLOW-ENTRY", "FLOW-MAPPING-END"}
                      THEN yaml_parser_parse_node(
                               PushState(pk2.p, "FLOW-MAPPING-KEY"), FALSE, FALSE)
                      ELSE {none(pk2.p, pk2.token[1])} :
                          pk2 \in peek_token(skip_token(pk.p))}
               ELSE {none(pk.p, pk.token[1])} :
          pk \in peek_token(p)}

(***************************************************************************)
(* The driver                                                              *)
(***************************************************************************)

yaml_parser_state_machine(p) ==
    CASE p.state = "STREAM-START" -> yaml_parser_parse_stream_start(p)
      [] p.state = "IMPLICIT-DOCUMENT-START" -> yaml_parser_parse_document_start(p, TRUE)
      [] p.state = "DOCUMENT-START" -> yaml_parser_parse_document_start(p, FALSE)
      [] p.state = "DOCUMENT-CONTENT" -> yaml_parser_parse_document_content(p)
      [] p.state = "DOCUMENT-END" -> yaml_parser_parse_document_end(p)
      [] p.state = "BLOCK-NODE" -> yaml_parser_parse_node(p, TRUE, FALSE)
      [] p.state = "BLOCK-NODE-OR-INDENTLESS-SEQUENCE" ->
             yaml_parser_parse_node(p, TRUE, TRUE)
      [] p.state = "FLOW-NODE" -> yaml_parser_parse_node(p, FALSE, FALSE)
      [] p.state = "BLOCK-SEQUENCE-FIRST-ENTRY" ->
             yaml_parser_parse_block_sequence_entry(p, TRUE)
      [] p.state = "BLOCK-SEQUENCE-ENTRY" ->
             yaml_parser_parse_block_sequence_entry(p, FALSE)
      [] p.state = "INDENTLESS-SEQUENCE-ENTRY" ->
             yaml_parser_parse_indentless_sequence_entry(p)
      [] p.state = "BLOCK-MAPPING-FIRST-KEY" ->
             yaml_parser_parse_block_mapping_key(p, TRUE)
      [] p.state = "BLOCK-MAPPING-KEY" -> yaml_parser_parse_block_mapping_key(p, FALSE)
      [] p.state = "BLOCK-MAPPING-VALUE" -> yaml_parser_parse_block_mapping_value(p)
      [] p.state = "FLOW-SEQUENCE-FIRST-ENTRY" ->
             yaml_parser_parse_flow_sequence_entry(p, TRUE)
      [] p.state = "FLOW-SEQUENCE-ENTRY" ->
             yaml_parser_parse_flow_sequence_entry(p, FALSE)
      [] p.state = "FLOW-SEQUENCE-ENTRY-MAPPING-KEY" ->
             yaml_parser_parse_flow_sequence_entry_mapping_key(p)
      [] p.state = "FLOW-SEQUENCE-ENTRY-MAPPING-VALUE" ->
             yaml_parser_parse_flow_sequence_entry_mapping_value(p)
      [] p.state = "FLOW-SEQUENCE-ENTRY-MAPPING-END" ->
             yaml_parser_parse_flow_sequence_entry_mapping_end(p)
      [] p.state = "FLOW-MAPPING-FIRST-KEY" -> yaml_parser_parse_flow_mapping_key(p, TRUE)
      [] p.state = "FLOW-MAPPING-KEY" -> yaml_parser_parse_flow_mapping_key(p, FALSE)
      [] p.state = "FLOW-MAPPING-VALUE" -> yaml_parser_parse_flow_mapping_value(p, FALSE)
      [] p.state = "FLOW-MAPPING-EMPTY-VALUE" ->
             yaml_parser_parse_flow_mapping_value(p, TRUE)
      [] OTHER -> {Panic(p)}   \* panic("invalid parser state")

\* Variant: a latched error does not stop the dispatch.
yaml_parser_parse_ignoring_error(p) ==
    IF p.stream_end_produced \/ p.state = "END"
    THEN {Return(p, ZeroEvent)}
    ELSE yaml_parser_state_machine(p)

\* Variant: a call after a latched error reports failure again.
yaml_parser_parse_failing_after_error(p) ==
    IF p.error # "NO-ERROR" THEN {Fail(p)}
    ELSE IF p.stream_end_produced \/ p.state = "END"
    THEN {Return(p, ZeroEvent)}
    ELSE yaml_parser_state_machine(p)

\* next_event.  The event object is erased first.
yaml_parser_parse(p) ==
    IF p.stream_end_produced \/ p.error # "NO-ERROR" \/ p.state = "END"
    THEN {Return(p, ZeroEvent)}
    ELSE yaml_parser_state_machine(p)

(***************************************************************************)
(* The state machine                                                       *)
(***************************************************************************)

Init ==
    /\ state = "STREAM-START"
    /\ states = <<>>
    /\ marks = <<>>
    /\ tag_directives = <<>>
    /\ tokens_parsed = 0
    /\ stream_end_produced = FALSE
    /\ error = "NO-ERROR"
    /\ problem = ""
    /\ problem_mark = 0
    /\ context = ""
    /\ context_mark = 0
    /\ token_available = FALSE
    /\ tokens = <<>>
    /\ fetched = 0
    /\ pos = 0
    /\ scenario \in Scenarios
    /\ event = ZeroEvent
    /\ ret = "none"
    /\ call_state = "none"
    /\ window = <<>>
    /\ node_at = 0
    /\ open = <<>>
    /\ nesting = <<>>
    /\ opened = <<>>
    /\ emitted = [t \in EventTypes |-> 0]
    /\ prev_event = ZeroEvent
    /\ last_event = ZeroEvent
    /\ events = <<>>

\* The collections open after event ev, innermost last.
OpenAfter(stack, ev) ==
    IF ev.event_type = "SEQUENCE-START" THEN Append(stack, "SEQUENCE")
    ELSE IF ev.event_type = "MAPPING-START" THEN Append(stack, "MAPPING")
    ELSE IF ev.event_type \in {"SEQUENCE-END", "MAPPING-END"} /\ stack # <<>>
    THEN Pop(stack)
    ELSE stack

\* How the open collections were opened, innermost last: "INDENTLESS" for a
\* sequence opened on a BLOCK-ENTRY token (line 502), "SINGLE-PAIR" for a
\* mapping opened on a KEY token inside a flow sequence (line 884),
\* "COLLECTION" for one opened on its own start token.
NestingAfter(stack, ev, next_state) ==
    IF ev.event_type \in {"SEQUENCE-START", "MAPPING-START"}
    THEN Append(stack,
                IF next_state = "INDENTLESS-SEQUENCE-ENTRY" THEN "INDENTLESS"
                ELSE IF next_state = "FLOW-SEQUENCE-ENTRY-MAPPING-KEY" THEN "SINGLE-PAIR"
                ELSE "COLLECTION")
    ELSE IF ev.event_type \in {"SEQUENCE-END", "MAPPING-END"} /\ stack # <<>>
    THEN Pop(stack)
    ELSE stack

\* For every open collection, innermost last, its style and the start mark of
\* the token that opened it: the token at the head of the queue when the start
\* event is returned (lines 502-516, 547-603), or the KEY token of a
\* single-pair mapping, which is consumed and whose marks the event has
\* (lines 884-895).
OpenedAfter(stack, ev, p) ==
    IF ev.event_type \in {"SEQUENCE-START", "MAPPING-START"}
    THEN Append(stack,
                [style |-> ev.style,
                 mark |-> IF p.state = "FLOW-SEQUENCE-ENTRY-MAPPING-KEY"
                          THEN ev.start_mark
                          ELSE p.tokens[1].start_mark])
    ELSE IF ev.event_type \in {"SEQUENCE-END", "MAPPING-END"} /\ stack # <<>>
    THEN Pop(stack)
    ELSE stack

\* The caller's view after a call that ended with outcome r.
Commit(r) ==
    /\ state' = r.p.state
    /\ states' = r.p.states
    /\ marks' = r.p.marks
    /\ tag_directives' = r.p.tag_directives
    /\ tokens_parsed' = r.p.tokens_parsed
    /\ stream_end_produced' = r.p.stream_end_produced
    /\ error' = r.p.error
    /\ problem' = r.p.problem
    /\ problem_mark' = r.p.problem_mark
    /\ context' = r.p.context
    /\ context_mark' = r.p.context_mark
    /\ token_available' = r.p.token_available
    /\ tokens' = r.p.tokens
    /\ fetched' = r.p.fetched
    /\ pos' = r.p.pos
    /\ scenario' = scenario
    /\ event' = r.event
    /\ ret' = r.ret
    /\ call_state' = state
    /\ window' = r.p.window
    /\ node_at' = r.p.node_at
    /\ open' = OpenAfter(open, r.event)
    /\ nesting' = NestingAfter(nesting, r.event, r.p.state)
    /\ opened' = OpenedAfter(opened, r.event, r.p)
    /\ emitted' = IF r.event.event_type \in EventTypes
                  THEN [emitted EXCEPT ![r.event.event_type] = @ + 1]
                  ELSE emitted
    /\ prev_event' = IF r.event.event_type \in EventTypes THEN last_event
                     ELSE prev_event
    /\ last_event' = IF r.event.event_type \in EventTypes THEN r.event
                     ELSE last_event
    /\ events' = IF scenario # "any" /\ r.event.event_type \in EventTypes
                 THEN Append(events, r.event)
                 ELSE events

\* The condition of the early return of yaml_parser_parse.
Finished == stream_end_produced \/ error # "NO-ERROR" \/ state = "END"

\* The parser object a handler works on (with the queue, the tokens the
\* scanner will find in the input of a scripted run, and the log of the
\* tokens the running call has had at the head of the queue).
Parser ==
    [state |-> state, states |-> states, marks |-> marks,
     tag_directives |-> tag_directives, tokens_parsed |-> tokens_parsed,
     stream_end_produced |-> stream_end_produced,
     error |-> error, problem |-> problem, problem_mark |-> problem_mark,
     context |-> context, context_mark |-> context_mark,
     token_available |-> token_available, tokens |-> tokens,
     fetched |-> fetched, pos |-> pos, scenario |-> scenario,
     input |-> Script(scenario),
     window |-> IF token_available THEN tokens ELSE <<>>,
     node_at |-> 0]

\* One call of yaml_parser_parse; a panic ends the program.
Call == ret # "panic" /\ \E r \in yaml_parser_parse(Parser) : Commit(r)

ParseStreamStart == ~Finished /\ state = "STREAM-START" /\ Call

ParseDocumentStart ==
    ~Finished /\ state \in {"IMPLICIT-DOCUMENT-START", "DOCUMENT-START"} /\ Call

ParseDocumentContent == ~Finished /\ state = "DOCUMENT-CONTENT" /\ Call

ParseDocumentEnd == ~Finished /\ state = "DOCUMENT-END" /\ Call

ParseNode ==
    /\ ~Finished
    /\ state \in {"BLOCK-NODE", "BLOCK-NODE-OR-INDENTLESS-SEQUENCE", "FLOW-NODE"}
    /\ Call

ParseBlockSequenceEntry ==
    ~Finished /\ state \in {"BLOCK-SEQUENCE-FIRST-ENTRY", "BLOCK-SEQUENCE-ENTRY"} /\ Call

ParseIndentlessSequenceEntry ==
    ~Finished /\ state = "INDENTLESS-SEQUENCE-ENTRY" /\ Call

ParseBlockMappingKey ==
    ~Finished /\ state \in {"BLOCK-MAPPING-FIRST-KEY", "BLOCK-MAPPING-KEY"} /\ Call

ParseBlockMappingValue == ~Finished /\ state = "BLOCK-MAPPING-VALUE" /\ Call

ParseFlowSequenceEntry ==
    ~Finished /\ state \in {"FLOW-SEQUENCE-FIRST-ENTRY", "FLOW-SEQUENCE-ENTRY"} /\ Call

ParseFlowSequenceEntryMappingKey ==
    ~Finished /\ state = "FLOW-SEQUENCE-ENTRY-MAPPING-KEY" /\ Call

ParseFlowSequenceEntryMappingValue ==
    ~Finished /\ state = "FLOW-SEQUENCE-ENTRY-MAPPING-VALUE" /\ Call

ParseFlowSequenceEntryMappingEnd ==
    ~Finished /\ state = "FLOW-SEQUENCE-ENTRY-MAPPING-END" /\ Call

ParseFlowMappingKey ==
    ~Finished /\ state \in {"FLOW-MAPPING-FIRST-KEY", "FLOW-MAPPING-KEY"} /\ Call

ParseFlowMappingValue ==
    ~Finished /\ state \in {"FLOW-MAPPING-VALUE", "FLOW-MAPPING-EMPTY-VALUE"} /\ Call

\* A call after the end of the stream or after an error.
NoMoreEvents == Finished /\ Call

Next ==
    \/ ParseStreamStart
    \/ ParseDocumentStart
    \/ ParseDocumentContent
    \/ ParseDocumentEnd
    \/ ParseNode
    \/ ParseBlockSequenceEntry
    \/ ParseIndentlessSequenceEntry
    \/ ParseBlockMappingKey
    \/ ParseBlockMappingValue
    \/ ParseFlowSequenceEntry
    \/ ParseFlowSequenceEntryMappingKey
    \/ ParseFlowSequenceEntryMappingValue
    \/ ParseFlowSequenceEntryMappingEnd
    \/ ParseFlowMappingKey
    \/ ParseFlowMappingValue
    \/ NoMoreEvents

Spec == Init /\ [][Next]_vars

\* The caller goes on calling yaml_parser_parse for as long as the program
\* runs.
LiveSpec == Spec /\ WF_vars(Next)

(***************************************************************************)
(* Properties                                                              *)
(***************************************************************************)

IsEvent(ev) == ev.event_type \in EventTypes

Starts == emitted["SEQUENCE-START"] + emitted["MAPPING-START"]

Ends == emitted["SEQUENCE-END"] + emitted["MAPPING-END"]

C1_DepthNeverNegative == Ends <= Starts

C1_EndClosesInnermost ==
    /\ event'.event_type = "SEQUENCE-END" => open # <<>> /\ Top(open) = "SEQUENCE"
    /\ event'.event_type = "MAPPING-END" => open # <<>> /\ Top(open) = "MAPPING"

C1_AllClosedAtStreamEnd ==
    event.event_type = "STREAM-END" =>
        /\ open = <<>>
        /\ emitted["SEQUENCE-START"] = emitted["SEQUENCE-END"]
        /\ emitted["MAPPING-START"] = emitted["MAPPING-END"]
        /\ emitted["DOCUMENT-START"] = emitted["DOCUMENT-END"]

\* C1: whatever the tokens, the end events emitted never outnumber the start
\* events, every sequence-end or mapping-end is emitted while the innermost
\* open collection is a sequence (resp. a mapping), and when stream-end is
\* emitted no collection and no document is open.
C1_Balanced ==
    /\ [](C1_DepthNeverNegative /\ C1_AllClosedAtStreamEnd)
    /\ [][C1_EndClosesInnermost]_vars

\* A stream whose document held a sequence and a mapping has just ended.
C1_Witness ==
    /\ event.event_type = "STREAM-END"
    /\ emitted["SEQUENCE-END"] >= 1
    /\ emitted["MAPPING-END"] >= 1

\* C2: once the stream-end event has been returned, stream_end_produced is
\* true and the state is END, and from then on every call returns true with
\* the zero event and leaves the parser and the token queue as they are.
C2_NoEventsAfterEnd ==
    /\ [](event.event_type = "STREAM-END" => stream_end_produced /\ state = "END")
    /\ [][stream_end_produced =>
            /\ ret' = "true"
            /\ event' = ZeroEvent
            /\ UNCHANGED <<parser_vars, queue_vars>>]_vars

\* A call has been made after the stream-end event.
C2_Witness ==
    /\ stream_end_produced
    /\ call_state = "END"
    /\ ret = "true"
    /\ event = ZeroEvent
    /\ last_event.event_type = "STREAM-END"

ErrorFields == <<error, problem, problem_mark, context, context_mark>>

\* C3 as claimed: once an error is latched, every later call returns false
\* and the error fields stay.
C3_FailsAgain ==
    [][error # "NO-ERROR" => ret' = "false" /\ UNCHANGED ErrorFields]_vars

\* C3 amended: once an error is latched, every later call returns true with
\* the zero event, and the error kind, problem, context and marks stay.
C3_SucceedsEmptyAfterError ==
    [][error # "NO-ERROR" =>
          ret' = "true" /\ event' = ZeroEvent /\ UNCHANGED ErrorFields]_vars

\* A call has been made after the failing one.
C3_Witness ==
    /\ error = "PARSER-ERROR"
    /\ problem = "did not find expected node content"
    /\ ret = "true"

\* C4: once an error is latched, a call gives the zero event and runs no
\* handler: no token is consumed or fetched, and the state, both stacks, the
\* tag directives and the error fields are unchanged.
C4_ErrorFreezesParser ==
    [][error # "NO-ERROR" =>
          /\ event' = ZeroEvent
          /\ UNCHANGED <<tokens_parsed, state, states, marks, tag_directives>>
          /\ UNCHANGED ErrorFields
          /\ UNCHANGED <<token_available, tokens, fetched>>]_vars

\* A call has been made after an error raised inside an open collection.
C4_Witness ==
    /\ error = "PARSER-ERROR"
    /\ context \in {"while parsing a block mapping", "while parsing a flow sequence"}
    /\ ret = "true"
    /\ event = ZeroEvent

\* C5 as claimed: a call made while no error is latched and the stream has
\* not ended either returns true with one event of the ten kinds, or returns
\* false with an error latched and the zero event.
C5_EventOrError ==
    [][~Finished =>
          \/ ret' = "true" /\ IsEvent(event')
                /\ \E t \in EventTypes : emitted' = [emitted EXCEPT ![t] = @ + 1]
          \/ ret' = "false" /\ error' # "NO-ERROR" /\ event' = ZeroEvent]_vars

Consecutive == IsEvent(prev_event) /\ IsEvent(last_event)

\* C6 as claimed: no event starts before the end of the event before it.
C6_MarksMonotonic ==
    Consecutive => prev_event.end_mark <= last_event.start_mark

ImplicitDocumentStart(ev) == ev.event_type = "DOCUMENT-START" /\ ev.implicit

\* C6 amended: no event starts before the end of the event before it, unless
\* the earlier one is an implicit document-start: that event has the marks of
\* the first token of the document, which is still in the queue, so the node
\* event after it starts where it starts.
C6_MarksMonotonicButImplicitDocument ==
    Consecutive =>
        IF ImplicitDocumentStart(prev_event)
        THEN prev_event.start_mark = last_event.start_mark
        ELSE prev_event.end_mark <= last_event.start_mark

\* A node event that starts before the end of the implicit document-start.
C6_Witness ==
    /\ ImplicitDocumentStart(prev_event)
    /\ last_event.event_type = "SEQUENCE-START"
    /\ last_event.start_mark < prev_event.end_mark

\* The place in the window of the TAG token of the node the latest call
\* parsed (alone, before an anchor or after one), or 0.
NodeTagIndex ==
    IF node_at = 0 THEN 0
    ELSE IF window[node_at].token_type = "TAG" THEN node_at
    ELSE IF /\ window[node_at].token_type = "ANCHOR"
            /\ Len(window) > node_at
            /\ window[node_at + 1].token_type = "TAG"
    THEN node_at + 1
    ELSE 0

HandleDefined(handle, directives) ==
    \E i \in 1..Len(directives) : directives[i].handle = handle

\* The tag a TAG token stands for: the suffix alone for the empty handle,
\* else the prefix declared for the handle followed by the suffix.
ClaimedTag(token, directives) ==
    IF token.value = "" THEN token.suffix
    ELSE LET i == CHOOSE i \in 1..Len(directives) :
                      directives[i].handle = token.value
         IN  directives[i].prefix \o token.suffix

\* C7 as claimed: a node that begins with a tag token whose handle is empty
\* or declared is returned as a node event that carries the resolved tag.
C7_NodeCarriesResolvedTag ==
    LET i == NodeTagIndex
    IN  ( /\ i > 0
          /\ window[i].value = "" \/ HandleDefined(window[i].value, tag_directives)
          /\ error # "SCANNER-ERROR" )
        => /\ ret = "true"
           /\ event.event_type \in {"SCALAR", "SEQUENCE-START", "MAPPING-START"}
           /\ event.tag = ClaimedTag(window[i], tag_directives)

\* C8 as claimed: a node whose tag token has a non-empty handle that no tag
\* directive declares makes the call fail with "found undefined tag handle"
\* at the tag, in the context "while parsing a node" at the start of the
\* node, and no event.
C8_UndefinedHandleIsAnError ==
    LET i == NodeTagIndex
    IN  ( /\ i > 0
          /\ window[i].value # ""
          /\ ~HandleDefined(window[i].value, tag_directives)
          /\ error # "SCANNER-ERROR" )
        => /\ ret = "false"
           /\ error = "PARSER-ERROR"
           /\ problem = "found undefined tag handle"
           /\ problem_mark = window[i].start_mark
           /\ context = "while parsing a node"
           /\ context_mark = window[node_at].start_mark
           /\ event = ZeroEvent

AtDocumentStart == call_state \in {"IMPLICIT-DOCUMENT-START", "DOCUMENT-START"}

\* The tokens the latest call saw from the document header on: in state
\* DOCUMENT-START the DOCUMENT-END tokens before it are left out.
Header ==
    LET n == Len(window)
        from == IF call_state = "DOCUMENT-START"
                THEN CHOOSE k \in 1..(n + 1) :
                         /\ \A j \in 1..(k - 1) : window[j].token_type = "DOCUMENT-END"
                         /\ k <= n => window[k].token_type # "DOCUMENT-END"
                ELSE 1
    IN  SubSeq(window, from, n)

IsVersionDirective(token) == token.token_type = "VERSION-DIRECTIVE"

IsTagDirective(token) == token.token_type = "TAG-DIRECTIVE"

DistinctHandles(h, n) ==
    \A i, j \in 1..n :
        IsTagDirective(h[i]) /\ IsTagDirective(h[j]) /\ i # j
            => h[i].value # h[j].value

\* At most one version directive, which is (1,1), tag directives with
\* distinct handles, then DOCUMENT-START.
AcceptableHeader(h) ==
    /\ Len(h) >= 1
    /\ h[Len(h)].token_type = "DOCUMENT-START"
    /\ \A i \in 1..(Len(h) - 1) : IsVersionDirective(h[i]) \/ IsTagDirective(h[i])
    /\ Cardinality({i \in 1..Len(h) : IsVersionDirective(h[i])}) <= 1
    /\ \A i \in 1..Len(h) : IsVersionDirective(h[i]) => h[i].major = 1 /\ h[i].minor = 1
    /\ DistinctHandles(h, Len(h))

DeclaredTagDirectives(h) ==
    LET d == SelectSeq(h, IsTagDirective)
    IN  [i \in 1..Len(d) |-> [handle |-> d[i].value, prefix |-> d[i].prefix]]

DeclaredVersion(h) ==
    IF \E i \in 1..Len(h) : IsVersionDirective(h[i])
    THEN <<[major |-> 1, minor |-> 1]>>
    ELSE <<>>

EventTypesOf(evs) == [i \in 1..Len(evs) |-> evs[i].event_type]

\* C9 as claimed: an acceptable explicit header is consumed whole and gives
\* document-start with implicit=false, the version and the tag directives in
\* token order; the stream STREAM-START, VERSION(1,1), TAG-DIRECTIVE,
\* DOCUMENT-START, SCALAR, DOCUMENT-END, STREAM-END gives stream-start,
\* document-start, scalar, document-end, stream-end and no error.
C9_HeaderAccepted ==
    /\ AtDocumentStart /\ AcceptableHeader(Header) =>
          /\ ret = "true"
          /\ event.event_type = "DOCUMENT-START"
          /\ ~event.implicit
          /\ event.version_directive = DeclaredVersion(Header)
          /\ event.tag_directives = DeclaredTagDirectives(Header)
          /\ ~token_available
    /\ scenario = "explicit-document" =>
          /\ error = "NO-ERROR"
          /\ state = "END" =>
                 EventTypesOf(events) =
                     <<"STREAM-START", "DOCUMENT-START", "SCALAR",
                       "DOCUMENT-END", "STREAM-END">>

\* C10 as claimed: the version directive of a document header (after tag
\* directives with distinct handles, if any) that is not (1,1) makes the call
\* fail with "found incompatible YAML document" at the start of that token,
\* and no event.
C10_IncompatibleVersionRejected ==
    AtDocumentStart =>
        \A i \in 1..Len(Header) :
            ( /\ IsVersionDirective(Header[i])
              /\ Header[i].major # 1 \/ Header[i].minor # 1
              /\ \A j \in 1..(i - 1) : IsTagDirective(Header[j])
              /\ DistinctHandles(Header, i) )
            => /\ ret = "false"
               /\ error = "PARSER-ERROR"
               /\ problem = "found incompatible YAML document"
               /\ problem_mark = Header[i].start_mark
               /\ event = ZeroEvent

\* The latest call returned the scalar event of a SCALAR token.
ScalarOfToken ==
    /\ ret = "true"
    /\ event.event_type = "SCALAR"
    /\ node_at > 0
    /\ ~token_available
    /\ window[Len(window)].token_type = "SCALAR"

ScalarEvents == {i \in 1..Len(events) : events[i].event_type = "SCALAR"}

BetweenDocuments ==
    state \in {"STREAM-START", "IMPLICIT-DOCUMENT-START", "DOCUMENT-START", "END"}

\* C12: while no error is latched and the state is STREAM-START,
\* IMPLICIT-DOCUMENT-START, DOCUMENT-START or END, the tag-directive table is
\* empty, so a document starts with nothing of the documents before it.
C12_NoTagDirectivesBetweenDocuments ==
    error = "NO-ERROR" /\ BetweenDocuments => tag_directives = <<>>

\* A document whose nodes were parsed with tag directives in the table has
\* ended and the next one is about to start.
C12_Witness ==
    /\ error = "NO-ERROR"
    /\ state = "DOCUMENT-START"
    /\ call_state = "DOCUMENT-END"
    /\ last_event.event_type = "DOCUMENT-END"
    /\ prev_event.event_type = "SCALAR"
    /\ tag_directives = <<>>

ErrorFree == error = "NO-ERROR" /\ ret # "panic"

Level == Len(open)

\* C13 as claimed: in an error-free run the depths of the state stack and of
\* the mark stack both equal the number of open collections.
C13_DepthsEqualLevel ==
    ErrorFree => Len(states) = Level /\ Len(marks) = Level

Count(stack, kind) == Cardinality({i \in 1..Len(stack) : stack[i] = kind})

\* The root node of a document is awaited: only its return state
\* DOCUMENT-END is on the state stack.
AwaitingRoot == state \in {"BLOCK-NODE", "DOCUMENT-CONTENT"}

\* A collection was opened by the latest event and its handler has not run.
JustOpened ==
    state \in {"BLOCK-SEQUENCE-FIRST-ENTRY", "BLOCK-MAPPING-FIRST-KEY",
               "FLOW-SEQUENCE-FIRST-ENTRY", "FLOW-MAPPING-FIRST-KEY"}

\* C13 amended: in an error-free run the state stack holds one return state
\* per open collection other than the single-pair mappings of flow sequences,
\* and one more (DOCUMENT-END) while the root node of a document is awaited;
\* the mark stack holds one mark per open collection other than indentless
\* sequences and single-pair mappings, the mark of a collection being pushed
\* by the first call after its start event.
C13_DepthsFollowLevel ==
    ErrorFree =>
        /\ Len(states) = Level - Count(nesting, "SINGLE-PAIR")
                           + (IF AwaitingRoot THEN 1 ELSE 0)
        /\ Len(marks) = Count(nesting, "COLLECTION")
                           - (IF JustOpened THEN 1 ELSE 0)

\* Inside the single-pair mapping of a flow sequence: two collections are
\* open, with one return state and one mark.
C13_Witness ==
    /\ ErrorFree
    /\ nesting = <<"COLLECTION", "SINGLE-PAIR">>
    /\ state = "FLOW-SEQUENCE-ENTRY-MAPPING-VALUE"
    /\ Len(states) = 1
    /\ Len(marks) = 1

AtDocumentBoundary ==
    state \in {"STREAM-START", "IMPLICIT-DOCUMENT-START", "DOCUMENT-START",
               "DOCUMENT-END", "END"}

\* C14: while no error is latched, both stacks are empty in the states
\* STREAM-START, IMPLICIT-DOCUMENT-START, DOCUMENT-START, DOCUMENT-END and
\* END, and in the states DOCUMENT-CONTENT and BLOCK-NODE (the root node of a
\* document) the state stack is exactly <<DOCUMENT-END>> and the mark stack is
\* empty.
C14_StacksAtDocumentBoundaries ==
    error = "NO-ERROR" =>
        /\ AtDocumentBoundary => states = <<>> /\ marks = <<>>
        /\ AwaitingRoot => states = <<"DOCUMENT-END">> /\ marks = <<>>

\* The root collection of a document, which held a nested collection, has
\* been closed.
C14_Witness ==
    /\ error = "NO-ERROR"
    /\ state = "DOCUMENT-END"
    /\ emitted["SEQUENCE-END"] + emitted["MAPPING-END"] >= 2
    /\ states = <<>>
    /\ marks = <<>>

\* A call in state IMPLICIT-DOCUMENT-START whose head token starts the root
\* node of a document without header.
ImplicitDocumentCall ==
    /\ state = "IMPLICIT-DOCUMENT-START"
    /\ ~Finished
    /\ window' # <<>>
    /\ window'[1].token_type \notin
           {"VERSION-DIRECTIVE", "TAG-DIRECTIVE", "DOCUMENT-START", "STREAM-END"}

C15_ImplicitDocumentStarted ==
    ImplicitDocumentCall =>
        /\ ret' = "true"
        /\ event'.event_type = "DOCUMENT-START"
        /\ event'.implicit
        /\ event'.version_directive = <<>>
        /\ event'.tag_directives = <<>>
        /\ tokens_parsed' = tokens_parsed
        /\ token_available' /\ tokens' = <<window'[1]>>
        /\ tag_directives' = default_tag_directives
        /\ states' = Append(states, "DOCUMENT-END")
        /\ state' = "BLOCK-NODE"

C15_PlainScalarStream ==
    scenario = "plain-scalar" /\ state = "END" =>
        /\ EventTypesOf(events) =
               <<"STREAM-START", "DOCUMENT-START", "SCALAR", "DOCUMENT-END",
                 "STREAM-END">>
        /\ events[2].implicit
        /\ events[3].value = "v" /\ events[3].style = "PLAIN"
        /\ events[3].implicit /\ ~events[3].quoted_implicit
        /\ events[3].tag = "" /\ events[3].anchor = ""
        /\ events[4].implicit

C15_EmptyStream ==
    scenario = "empty-stream" /\ state = "END" =>
        EventTypesOf(events) = <<"STREAM-START", "STREAM-END">>

\* C15: a call in state IMPLICIT-DOCUMENT-START on a head token that is no
\* directive, DOCUMENT-START or STREAM-END returns document-start with
\* implicit=true, no version and no tag directives, consumes nothing,
\* installs the default tag directives, pushes DOCUMENT-END and moves to
\* BLOCK-NODE; STREAM-START, SCALAR(v, plain), STREAM-END gives stream-start,
\* document-start(implicit), scalar(v, plain_implicit, no tag, no anchor),
\* document-end(implicit), stream-end, and STREAM-START, STREAM-END gives
\* stream-start, stream-end; neither latches an error.
C15_ImplicitDocument ==
    /\ [][C15_ImplicitDocumentStarted]_vars
    /\ [](C15_PlainScalarStream /\ C15_EmptyStream)
    /\ [](scenario \in {"plain-scalar", "empty-stream"} => ErrorFree)

\* The stream STREAM-START, SCALAR(v, plain), STREAM-END has been parsed to
\* its end.
C15_Witness ==
    /\ scenario = "plain-scalar"
    /\ state = "END"
    /\ Len(events) = 5

\* A call of a block mapping handler that, after KEY or VALUE, met
\* BLOCK-ENTRY where the node was expected.
BlockEntryAsNode ==
    /\ state \in {"BLOCK-MAPPING-FIRST-KEY", "BLOCK-MAPPING-KEY", "BLOCK-MAPPING-VALUE"}
    /\ ~Finished
    /\ Len(window') >= 2
    /\ window'[Len(window')].token_type = "BLOCK-ENTRY"
    /\ window'[Len(window') - 1].token_type \in {"KEY", "VALUE"}

C16_IndentlessSequenceStarted ==
    BlockEntryAsNode =>
        /\ ret' = "true"
        /\ event'.event_type = "SEQUENCE-START"
        /\ event'.style = "BLOCK-SEQUENCE"
        /\ state' = "INDENTLESS-SEQUENCE-ENTRY"
        /\ token_available' /\ tokens'[1].token_type = "BLOCK-ENTRY"

\* A call in state INDENTLESS-SEQUENCE-ENTRY that found a token at the head
\* of the queue.
IndentlessCall ==
    state = "INDENTLESS-SEQUENCE-ENTRY" /\ ~Finished /\ window' # <<>>

EmptyScalarAt(ev, mark) ==
    ev = [Event("SCALAR", mark, mark) EXCEPT !.implicit = TRUE, !.style = "PLAIN"]

C16_IndentlessEntry ==
    IndentlessCall /\ window'[1].token_type = "BLOCK-ENTRY" =>
        /\ ret' = "true" =>
              /\ event'.event_type \in
                     {"SCALAR", "ALIAS", "SEQUENCE-START", "MAPPING-START"}
              /\ tokens_parsed' > tokens_parsed
        /\ ( /\ Len(window') >= 2
             /\ window'[2].token_type \in {"BLOCK-ENTRY", "KEY", "VALUE", "BLOCK-END"} )
           => /\ ret' = "true"
              /\ EmptyScalarAt(event', window'[1].end_mark)
              /\ tokens_parsed' = tokens_parsed + 1
              /\ state' = "INDENTLESS-SEQUENCE-ENTRY"

C16_IndentlessSequenceEnded ==
    IndentlessCall /\ window'[1].token_type # "BLOCK-ENTRY" =>
        /\ ret' = "true"
        /\ event' = Event("SEQUENCE-END", window'[1].start_mark, window'[1].start_mark)
        /\ tokens_parsed' = tokens_parsed
        /\ token_available' /\ tokens' = <<window'[1]>>
        /\ states # <<>> /\ state' = Top(states) /\ states' = Pop(states)
        /\ marks' = marks

C16_IndentlessStream ==
    scenario = "indentless-sequence" =>
        /\ ErrorFree
        /\ state = "END" =>
              /\ EventTypesOf(events) =
                     <<"STREAM-START", "DOCUMENT-START", "MAPPING-START", "SCALAR",
                       "SEQUENCE-START", "SCALAR", "SCALAR", "SEQUENCE-END",
                       "MAPPING-END", "DOCUMENT-END", "STREAM-END">>
              /\ events[3].style = "BLOCK-MAPPING"
              /\ events[4].value = "a"
              /\ events[5].style = "BLOCK-SEQUENCE"
              /\ events[6].value = "1"
              /\ events[7].value = "2"
              /\ events[8].start_mark = events[8].end_mark
              /\ events[8].start_mark = events[9].start_mark

\* C16: BLOCK-ENTRY met where the key or value node of a block mapping is
\* expected opens a sequence (block style) in state
\* INDENTLESS-SEQUENCE-ENTRY; there every BLOCK-ENTRY gives one node or one
\* empty scalar, and any other head token gives sequence-end with both marks
\* at that token's start, leaves the token in the queue and returns to the
\* state on top of the state stack; the tokens of "a:\n- 1\n- 2\n" give
\* mapping-start, scalar a, sequence-start, scalar 1, scalar 2, sequence-end,
\* mapping-end.
C16_IndentlessSequence ==
    /\ [][C16_IndentlessSequenceStarted]_vars
    /\ [][C16_IndentlessEntry]_vars
    /\ [][C16_IndentlessSequenceEnded]_vars
    /\ []C16_IndentlessStream

\* The indentless sequence of the example has been closed on the BLOCK-END
\* token, which is still at the head of the queue.
C16_Witness ==
    /\ scenario = "indentless-sequence"
    /\ call_state = "INDENTLESS-SEQUENCE-ENTRY"
    /\ event.event_type = "SEQUENCE-END"
    /\ state = "BLOCK-MAPPING-KEY"
    /\ token_available /\ tokens[1].token_type = "BLOCK-END"

\* A call of the flow sequence handler that met KEY where an entry may start:
\* right after FLOW-SEQUENCE-START or right after FLOW-ENTRY.
KeyAsFlowSequenceEntry ==
    /\ ~Finished
    /\ Len(window') = 2
    /\ window'[2].token_type = "KEY"
    /\ \/ /\ state = "FLOW-SEQUENCE-FIRST-ENTRY"
          /\ window'[1].token_type = "FLOW-SEQUENCE-START"
       \/ /\ state = "FLOW-SEQUENCE-ENTRY"
          /\ window'[1].token_type = "FLOW-ENTRY"

C17_SinglePairOpened ==
    KeyAsFlowSequenceEntry =>
        /\ ret' = "true"
        /\ event' = [Event("MAPPING-START", window'[2].start_mark, window'[2].end_mark)
                        EXCEPT !.implicit = TRUE, !.style = "FLOW-MAPPING"]
        /\ state' = "FLOW-SEQUENCE-ENTRY-MAPPING-KEY"
        /\ tokens_parsed' = tokens_parsed + 2 /\ ~token_available'
        /\ states' = states

C17_SinglePairClosed ==
    state = "FLOW-SEQUENCE-ENTRY-MAPPING-END" /\ ~Finished /\ window' # <<>> =>
        /\ ret' = "true"
        /\ event' = Event("MAPPING-END", window'[1].start_mark, window'[1].start_mark)
        /\ state' = "FLOW-SEQUENCE-ENTRY"
        /\ tokens_parsed' = tokens_parsed
        /\ states' = states /\ marks' = marks

C17_SinglePairStream ==
    scenario = "single-pair" =>
        /\ ErrorFree
        /\ Len(events) >= 8 =>
              /\ EventTypesOf(SubSeq(events, 3, 8)) =
                     <<"SEQUENCE-START", "MAPPING-START", "SCALAR", "SCALAR",
                       "MAPPING-END", "SEQUENCE-END">>
              /\ events[3].style = "FLOW-SEQUENCE"
              /\ events[4].style = "FLOW-MAPPING" /\ events[4].implicit
              /\ events[5].value = "k"
              /\ events[6].value = "v"
        \* before the node of the sequence: state BLOCK-NODE with the return
        \* state DOCUMENT-END on the state stack and no mark
        /\ Len(events) = 2 =>
              state = "BLOCK-NODE" /\ states = <<"DOCUMENT-END">> /\ marks = <<>>
        /\ Len(events) = 8 =>
              state = "DOCUMENT-END" /\ states = <<>> /\ marks = <<>>

\* C17: in a flow sequence KEY where an entry starts opens a mapping (flow
\* style, implicit) without a return state or a mark of its own, and the
\* state FLOW-SEQUENCE-ENTRY-MAPPING-END closes it with a zero-width
\* mapping-end that consumes nothing; FLOW-SEQUENCE-START, KEY, SCALAR(k),
\* VALUE, SCALAR(v), FLOW-SEQUENCE-END in a document give sequence-start(flow),
\* mapping-start(flow, implicit), scalar k, scalar v, mapping-end,
\* sequence-end, after which the return state of the sequence's node has been
\* popped into the state and the mark stack is as it was before the node.
C17_SinglePairMapping ==
    /\ [][C17_SinglePairOpened]_vars
    /\ [][C17_SinglePairClosed]_vars
    /\ []C17_SinglePairStream

\* The flow sequence of the example has just been closed.
C17_Witness ==
    /\ scenario = "single-pair"
    /\ Len(events) = 8
    /\ event.event_type = "SEQUENCE-END"

\* Token types that start the content of a node in no context.
NeverContent ==
    {"STREAM-END", "DOCUMENT-START", "DOCUMENT-END", "BLOCK-END",
     "FLOW-SEQUENCE-END", "FLOW-MAPPING-END", "FLOW-ENTRY", "KEY", "VALUE",
     "VERSION-DIRECTIVE", "TAG-DIRECTIVE", "ALIAS"}

\* The latest call parsed a node made of properties only: window' ends with
\* one or two property tokens (ANCHOR, TAG, not twice the same) and a token
\* that starts no content.
PropertiesOnly ==
    LET n == Len(window')
    IN  /\ ~Finished
        /\ node_at' > 0
        /\ n - node_at' \in {1, 2}
        /\ \A i \in node_at'..(n - 1) : window'[i].token_type \in {"ANCHOR", "TAG"}
        /\ n - node_at' = 2 => window'[n - 2].token_type # window'[n - 1].token_type
        /\ window'[n].token_type \in NeverContent
        /\ \A i \in node_at'..(n - 1) :
               window'[i].token_type = "TAG" =>
                   \/ window'[i].value = ""
                   \/ HandleDefined(window'[i].value, tag_directives')

PropertyOf(kind, otherwise) ==
    LET n == Len(window')
        at == {i \in node_at'..(n - 1) : window'[i].token_type = kind}
    IN  IF at = {} THEN otherwise
        ELSE IF kind = "ANCHOR" THEN window'[CHOOSE i \in at : TRUE].value
        ELSE ClaimedTag(window'[CHOOSE i \in at : TRUE], tag_directives')

C18_PropertiesOnlyScalar ==
    PropertiesOnly =>
        LET n == Len(window')
        IN  /\ ret' = "true"
            /\ event' = [Event("SCALAR", window'[node_at'].start_mark,
                               window'[n - 1].end_mark) EXCEPT
                            !.anchor = PropertyOf("ANCHOR", ""),
                            !.tag = PropertyOf("TAG", ""),
                            !.implicit = (PropertyOf("TAG", "") = ""),
                            !.style = "PLAIN"]
            /\ token_available' /\ tokens' = <<window'[n]>>
            /\ tokens_parsed' = tokens_parsed + (n - 1)
            /\ IF state \in {"BLOCK-NODE", "DOCUMENT-CONTENT"}
               THEN state' = Top(states) /\ states' = Pop(states)
               ELSE states' = states

C18_TagOnlyStream ==
    scenario = "tag-only" =>
        /\ ErrorFree
        /\ state = "END" =>
              /\ EventTypesOf(events) =
                     <<"STREAM-START", "DOCUMENT-START", "SCALAR", "DOCUMENT-END",
                       "STREAM-END">>
              /\ events[3].tag = "tag:yaml.org,2002:str"
              /\ events[3].value = "" /\ events[3].anchor = ""
              /\ events[3].style = "PLAIN"
              /\ ~events[3].implicit /\ ~events[3].quoted_implicit

\* C18 as claimed: a node made of an anchor, a tag, or both in either order,
\* followed by a token that cannot start its content, is returned as one
\* scalar event with empty value, plain style, the anchor, the resolved tag,
\* plain_implicit = (no tag) and quoted_implicit = false; the return state is
\* popped and the following token stays in the queue; so STREAM-START,
\* TAG("!!", "str"), STREAM-END gives an empty scalar tagged
\* "tag:yaml.org,2002:str" in an implicit document.
C18_PropertiesOnlyNode ==
    /\ [][C18_PropertiesOnlyScalar]_vars
    /\ []C18_TagOnlyStream

\* The latest call returned a scalar event without parsing a node: the
\* scalar stands for a node the tokens leave out.
SynthesisedScalar ==
    ret = "true" /\ event.event_type = "SCALAR" /\ node_at = 0

WindowEndsWith(first, second) ==
    /\ Len(window) >= 2
    /\ window[Len(window) - 1].token_type \in first
    /\ window[Len(window)].token_type \in second

\* The cases of an omitted node named by the claim, with the mark the empty
\* scalar is put at (<<>> when the latest call met none of them).
OmittedNodeMark ==
    LET n == Len(window)
    IN  IF error # "NO-ERROR" \/ ret = "panic" \/ n = 0 THEN <<>>
        ELSE IF /\ call_state \in {"BLOCK-SEQUENCE-FIRST-ENTRY", "BLOCK-SEQUENCE-ENTRY"}
                /\ WindowEndsWith({"BLOCK-ENTRY"}, {"BLOCK-ENTRY", "BLOCK-END"})
        THEN <<window[n - 1].end_mark>>
        ELSE IF /\ call_state \in {"BLOCK-MAPPING-FIRST-KEY", "BLOCK-MAPPING-KEY"}
                /\ WindowEndsWith({"KEY"}, {"KEY", "VALUE", "BLOCK-END"})
        THEN <<window[n - 1].end_mark>>
        ELSE IF /\ call_state = "BLOCK-MAPPING-VALUE"
                /\ WindowEndsWith({"VALUE"}, {"KEY", "VALUE", "BLOCK-END"})
        THEN <<window[n - 1].end_mark>>
        ELSE IF /\ call_state \in {"FLOW-MAPPING-FIRST-KEY", "FLOW-MAPPING-KEY"}
                /\ WindowEndsWith({"KEY"}, {"VALUE", "FLOW-ENTRY", "FLOW-MAPPING-END"})
        THEN <<window[n].start_mark>>
        ELSE IF /\ call_state = "FLOW-MAPPING-VALUE"
                /\ WindowEndsWith({"VALUE"}, {"FLOW-ENTRY", "FLOW-MAPPING-END"})
        THEN <<window[n].start_mark>>
        ELSE IF /\ call_state = "DOCUMENT-CONTENT"
                /\ window[1].token_type \in
                       {"VERSION-DIRECTIVE", "TAG-DIRECTIVE", "DOCUMENT-START",
                        "DOCUMENT-END", "STREAM-END"}
        THEN <<window[1].start_mark>>
        ELSE <<>>

C19_EmptyPairStream ==
    scenario = "empty-pair" =>
        /\ ErrorFree
        /\ Len(events) >= 6 =>
              /\ EventTypesOf(SubSeq(events, 3, 6)) =
                     <<"MAPPING-START", "SCALAR", "SCALAR", "MAPPING-END">>
              /\ EmptyScalarAt(events[4], events[4].start_mark)
              /\ EmptyScalarAt(events[5], events[5].start_mark)

\* C19: every scalar event returned without parsing a node has empty value,
\* plain style, plain_implicit=true, quoted_implicit=false, no anchor, no tag
\* and equal marks; a BLOCK-ENTRY followed by BLOCK-ENTRY or BLOCK-END, an
\* omitted key or value of a block or flow mapping and the empty body of an
\* explicit document each give such a scalar, as do the key and the value in
\* FLOW-MAPPING-START, KEY, VALUE, FLOW-MAPPING-END.
C19_EmptyScalars ==
    /\ SynthesisedScalar => EmptyScalarAt(event, event.start_mark)
    /\ OmittedNodeMark # <<>> =>
          SynthesisedScalar /\ EmptyScalarAt(event, OmittedNodeMark[1])
    /\ C19_EmptyPairStream

\* The value left out after VALUE in a flow mapping has been reported.
C19_Witness ==
    /\ call_state = "FLOW-MAPPING-VALUE"
    /\ OmittedNodeMark # <<>>
    /\ SynthesisedScalar
    /\ scenario = "any"

\* A call of the block mapping key handler that found a token where the key
\* is expected (in the first call, after the BLOCK-MAPPING-START token).
BlockMappingKeyCall ==
    /\ state \in {"BLOCK-MAPPING-FIRST-KEY", "BLOCK-MAPPING-KEY"}
    /\ ~Finished
    /\ Len(window') >= (IF state = "BLOCK-MAPPING-FIRST-KEY" THEN 2 ELSE 1)

TokenAtKey == window'[IF state = "BLOCK-MAPPING-FIRST-KEY" THEN 2 ELSE 1]

ExpectedKeyError ==
    /\ ret' = "false"
    /\ error' = "PARSER-ERROR"
    /\ context' = "while parsing a block mapping"
    /\ problem' = "did not find expected key"

C20_KeyErrorUnlessKeyValueOrEnd ==
    BlockMappingKeyCall =>
        /\ ExpectedKeyError <=>
               TokenAtKey.token_type \notin {"KEY", "VALUE", "BLOCK-END"}
        /\ TokenAtKey.token_type = "VALUE" => error' = "NO-ERROR"

\* C20 as claimed: where a block mapping expects a key, the call fails with
\* context "while parsing a block mapping" and problem "did not find expected
\* key" exactly when the head token is none of KEY, VALUE, BLOCK-END; VALUE
\* there is not an error.
C20_ExpectedKey ==
    [][C20_KeyErrorUnlessKeyValueOrEnd]_vars

\* A call in state FLOW-SEQUENCE-ENTRY-MAPPING-KEY whose head token shows
\* that the key of the pair is left out.
OmittedPairKey ==
    /\ state = "FLOW-SEQUENCE-ENTRY-MAPPING-KEY"
    /\ ~Finished
    /\ window' # <<>>
    /\ window'[1].token_type \in {"VALUE", "FLOW-ENTRY", "FLOW-SEQUENCE-END"}

C21_EmptyKeyKeepsToken ==
    OmittedPairKey =>
        /\ ret' = "true"
        /\ event'.event_type = "SCALAR" /\ event'.value = ""
        /\ state' = "FLOW-SEQUENCE-ENTRY-MAPPING-VALUE"
        /\ tokens_parsed' = tokens_parsed
        /\ token_available' /\ tokens' = <<window'[1]>>

C21_OmittedKeyStream ==
    scenario = "omitted-key" =>
        /\ ErrorFree
        /\ Len(events) >= 8 =>
              /\ EventTypesOf(SubSeq(events, 3, 8)) =
                     <<"SEQUENCE-START", "MAPPING-START", "SCALAR", "SCALAR",
                       "MAPPING-END", "SEQUENCE-END">>
              /\ events[5].value = ""
              /\ events[6].value = "v"

C21_KeyOnlyStream ==
    scenario = "key-only" =>
        /\ ErrorFree
        /\ Len(events) >= 8 =>
              /\ EventTypesOf(SubSeq(events, 3, 8)) =
                     <<"SEQUENCE-START", "MAPPING-START", "SCALAR", "SCALAR",
                       "MAPPING-END", "SEQUENCE-END">>
              /\ events[5].value = ""
              /\ events[6].value = ""

\* C21 as claimed: in the single-pair mapping of a flow sequence a head token
\* VALUE, FLOW-ENTRY or FLOW-SEQUENCE-END after KEY gives an empty scalar for
\* the key and stays in the queue; FLOW-SEQUENCE-START, KEY, VALUE, SCALAR(v),
\* FLOW-SEQUENCE-END gives sequence-start, mapping-start, empty scalar,
\* scalar v, mapping-end, sequence-end and FLOW-SEQUENCE-START, KEY,
\* FLOW-SEQUENCE-END gives sequence-start, mapping-start, two empty scalars,
\* mapping-end, sequence-end, both without error.
C21_OmittedKey ==
    /\ [][C21_EmptyKeyKeepsToken]_vars
    /\ [](C21_OmittedKeyStream /\ C21_KeyOnlyStream)

\* The number of DOCUMENT-END tokens at the front of a token sequence.
RECURSIVE LeadingDocumentEnds(_)
LeadingDocumentEnds(w) ==
    IF w # <<>> /\ Head(w).token_type = "DOCUMENT-END"
    THEN 1 + LeadingDocumentEnds(Tail(w))
    ELSE 0

\* Every document-end event closes the one open document.
C22_OneEndPerDocument ==
    /\ emitted["DOCUMENT-END"] <= emitted["DOCUMENT-START"]
    /\ emitted["DOCUMENT-START"] <= emitted["DOCUMENT-END"] + 1

C22_DocumentEnded ==
    state = "DOCUMENT-END" /\ ~Finished /\ window' # <<>> =>
        LET explicit == window'[1].token_type = "DOCUMENT-END"
        IN  /\ ret' = "true"
            /\ event'.event_type = "DOCUMENT-END"
            /\ event'.implicit = ~explicit
            /\ tokens_parsed' = tokens_parsed + (IF explicit THEN 1 ELSE 0)
            /\ ~explicit => token_available' /\ tokens' = <<window'[1]>>
            /\ tag_directives' = <<>>
            /\ state' = "DOCUMENT-START"

C22_FurtherEndsSkipped ==
    state = "DOCUMENT-START" /\ ~Finished =>
        LET k == LeadingDocumentEnds(window')
        IN  /\ tokens_parsed' >= tokens_parsed + k
            /\ event'.event_type # "DOCUMENT-END"
            /\ event'.event_type \in {"DOCUMENT-START", "STREAM-END"} =>
                  /\ Len(window') > k
                  /\ event'.start_mark = window'[k + 1].start_mark
            /\ emitted'["DOCUMENT-END"] = emitted["DOCUMENT-END"]

\* C22: a document gets exactly one document-end event: in state DOCUMENT-END
\* the event is explicit and consumes one token when the head token is
\* DOCUMENT-END, and is implicit and consumes nothing otherwise; the tag
\* directives are cleared and the state is DOCUMENT-START, where the call
\* consumes every DOCUMENT-END token at the head of the queue and emits
\* nothing for them.
C22_OneDocumentEnd ==
    /\ []C22_OneEndPerDocument
    /\ [][C22_DocumentEnded]_vars
    /\ [][C22_FurtherEndsSkipped]_vars

\* A document was followed by three DOCUMENT-END tokens: the first gave its
\* document-end event, the next two were skipped by the call that ended the
\* stream.
C22_Witness ==
    /\ call_state = "DOCUMENT-START"
    /\ LeadingDocumentEnds(window) = 2
    /\ event.event_type = "STREAM-END"
    /\ prev_event.event_type = "DOCUMENT-END" /\ ~prev_event.implicit
    /\ emitted["DOCUMENT-END"] = 1

\* A call in state DOCUMENT-START that found, after the DOCUMENT-END tokens
\* it skipped, a token that starts neither a document header nor the end of
\* the stream.
HeaderlessDocument ==
    LET k == LeadingDocumentEnds(window')
    IN  /\ state = "DOCUMENT-START"
        /\ ~Finished
        /\ Len(window') > k
        /\ window'[k + 1].token_type \notin
               {"VERSION-DIRECTIVE", "TAG-DIRECTIVE", "DOCUMENT-START", "STREAM-END"}

\* C23: after the first document, a head token (past the DOCUMENT-END tokens
\* that are skipped) that is none of VERSION-DIRECTIVE, TAG-DIRECTIVE,
\* DOCUMENT-START, STREAM-END makes the call fail with the parser error "did
\* not find expected <document start>" at the start of that token, and no
\* event is emitted.
C23_OnlyFirstDocumentImplicit ==
    [][HeaderlessDocument =>
          /\ ret' = "false"
          /\ error' = "PARSER-ERROR"
          /\ problem' = "did not find expected <document start>"
          /\ problem_mark' = window'[LeadingDocumentEnds(window') + 1].start_mark
          /\ event' = ZeroEvent
          /\ emitted' = emitted]_vars

\* A second document that starts with a scalar, after an explicit end of the
\* first one, has been rejected.
C23_Witness ==
    /\ call_state = "DOCUMENT-START"
    /\ problem = "did not find expected <document start>"
    /\ ret = "false"
    /\ window # <<>> /\ window[Len(window)].token_type = "SCALAR"
    /\ last_event.event_type = "DOCUMENT-END" /\ ~last_event.implicit
    /\ emitted["DOCUMENT-START"] = 1

\* The latest event completed a node that is inside no collection: the root
\* node of the open document.
RootNodeDone ==
    /\ open = <<>>
    /\ last_event.event_type \in {"ALIAS", "SCALAR", "SEQUENCE-END", "MAPPING-END"}

\* The event returned by a call that raised no error, seen with the event
\* before it: a root node follows document-start, document-end follows the
\* root node and nothing else does.
C24_OneRootNode ==
    IsEvent(event') /\ error' = "NO-ERROR" =>
        /\ last_event.event_type = "DOCUMENT-START" =>
               event'.event_type \in {"ALIAS", "SCALAR", "SEQUENCE-START", "MAPPING-START"}
        /\ RootNodeDone => event'.event_type = "DOCUMENT-END"
        /\ event'.event_type = "DOCUMENT-END" => RootNodeDone

\* A call in state DOCUMENT-CONTENT whose head token, the one after the
\* DOCUMENT-START token, cannot start the root node.
EmptyDocumentBody ==
    /\ state = "DOCUMENT-CONTENT"
    /\ ~Finished
    /\ window' # <<>>
    /\ window'[1].token_type \in
           {"VERSION-DIRECTIVE", "TAG-DIRECTIVE", "DOCUMENT-START", "DOCUMENT-END",
            "STREAM-END"}

C24_EmptyBody ==
    EmptyDocumentBody =>
        /\ ~token_available
        /\ ret' = "true"
        /\ EmptyScalarAt(event', window'[1].start_mark)
        /\ tokens_parsed' = tokens_parsed
        /\ token_available' /\ tokens' = <<window'[1]>>
        /\ state' = "DOCUMENT-END" /\ states' = <<>>

\* C24: in an error-free run the event after document-start begins the root
\* node (alias, scalar, sequence-start or mapping-start), the event after the
\* end of the root node is document-end, and document-end comes only there;
\* in an explicit document a directive, DOCUMENT-START, DOCUMENT-END or
\* STREAM-END token right after the DOCUMENT-START token gives an empty plain
\* scalar at the start of that token, which stays in the queue.
C24_ExactlyOneRootNode ==
    /\ [][C24_OneRootNode]_vars
    /\ [][C24_EmptyBody]_vars

\* The empty body of an explicit document that is followed by the header of
\* the next one has been reported as an empty scalar.
C24_Witness ==
    /\ call_state = "DOCUMENT-CONTENT"
    /\ error = "NO-ERROR"
    /\ EmptyScalarAt(event, event.start_mark)
    /\ token_available /\ tokens[1].token_type = "DOCUMENT-START"
    /\ state = "DOCUMENT-END"

\* The style of the collection whose handler reports each problem.
StyleOfProblem ==
    [p \in {"did not find expected '-' indicator", "did not find expected key",
            "did not find expected ',' or ']'", "did not find expected ',' or '}'"} |->
        CASE p = "did not find expected '-' indicator" -> "BLOCK-SEQUENCE"
          [] p = "did not find expected key" -> "BLOCK-MAPPING"
          [] p = "did not find expected ',' or ']'" -> "FLOW-SEQUENCE"
          [] OTHER -> "FLOW-MAPPING"]

\* The call raised one of the four errors of the collection handlers.
CollectionErrorRaised ==
    /\ ~Finished
    /\ ret' = "false"
    /\ problem' \in DOMAIN StyleOfProblem

\* C25: when a collection handler fails with "did not find expected '-'
\* indicator", "did not find expected key", "did not find expected ',' or
\* ']'" or "did not find expected ',' or '}'", the innermost open collection
\* is a block sequence, block mapping, flow sequence or flow mapping
\* respectively, context_mark is the start mark of the token that opened it,
\* and problem_mark is the start mark of the head token the handler rejected.
C25_ErrorMarks ==
    [][CollectionErrorRaised =>
          /\ error' = "PARSER-ERROR"
          /\ opened # <<>>
          /\ Top(opened).style = StyleOfProblem[problem']
          /\ Top(nesting) = "COLLECTION"
          /\ context_mark' = Top(opened).mark
          /\ window' # <<>>
          /\ problem_mark' = window'[Len(window')].start_mark
          /\ token_available' /\ tokens' = <<window'[Len(window')]>>]_vars

\* An error raised in a collection nested in another one: the context is the
\* mark of the inner collection, not of the outer one.
C25_Witness ==
    /\ ret = "false"
    /\ problem \in DOMAIN StyleOfProblem
    /\ Len(opened) = 2
    /\ context_mark = opened[2].mark
    /\ context_mark # opened[1].mark

\* What the handler of the entries after the first expects, reports and
\* emits, for the flow sequence and for the flow mapping.
FlowCollection ==
    [s \in {"FLOW-SEQUENCE-ENTRY", "FLOW-MAPPING-KEY"} |->
        IF s = "FLOW-SEQUENCE-ENTRY"
        THEN [closing |-> "FLOW-SEQUENCE-END", end |-> "SEQUENCE-END",
              context |-> "while parsing a flow sequence",
              problem |-> "did not find expected ',' or ']'"]
        ELSE [closing |-> "FLOW-MAPPING-END", end |-> "MAPPING-END",
              context |-> "while parsing a flow mapping",
              problem |-> "did not find expected ',' or '}'"]]

\* A call in state FLOW-SEQUENCE-ENTRY or FLOW-MAPPING-KEY that found a token
\* at the head of the queue.
FurtherEntryCall ==
    state \in DOMAIN FlowCollection /\ ~Finished /\ window' # <<>>

C26_SeparatorRequired ==
    FurtherEntryCall
      /\ window'[1].token_type \notin {FlowCollection[state].closing, "FLOW-ENTRY"} =>
        /\ ret' = "false"
        /\ error' = "PARSER-ERROR"
        /\ problem' = FlowCollection[state].problem
        /\ context' = FlowCollection[state].context
        /\ event' = ZeroEvent
        /\ tokens_parsed' = tokens_parsed

C26_EntryAfterSeparator ==
    FurtherEntryCall /\ ret' = "true" =>
        IF event'.event_type = FlowCollection[state].end /\ open' # open
        THEN window'[Len(window')].token_type = FlowCollection[state].closing
        ELSE /\ window'[1].token_type = "FLOW-ENTRY"
             /\ tokens_parsed' > tokens_parsed

C26_ClosedAfterSeparator ==
    FurtherEntryCall
      /\ Len(window') = 2
      /\ window'[1].token_type = "FLOW-ENTRY"
      /\ window'[2].token_type = FlowCollection[state].closing =>
        /\ ret' = "true"
        /\ event' = Event(FlowCollection[state].end, window'[2].start_mark,
                          window'[2].end_mark)
        /\ tokens_parsed' = tokens_parsed + 2
        /\ emitted'["SCALAR"] = emitted["SCALAR"]
        /\ states # <<>> /\ state' = Top(states) /\ states' = Pop(states)
        /\ marks # <<>> /\ marks' = Pop(marks)

\* C26: in the states FLOW-SEQUENCE-ENTRY and FLOW-MAPPING-KEY a head token
\* that is neither the closing token nor FLOW-ENTRY makes the call fail with
\* the problem and the context of the collection; an entry is started only by
\* a call that consumed FLOW-ENTRY first; FLOW-ENTRY followed by the closing
\* token gives the end event of the collection and no scalar.
C26_FlowEntries ==
    /\ [][C26_SeparatorRequired]_vars
    /\ [][C26_EntryAfterSeparator]_vars
    /\ [][C26_ClosedAfterSeparator]_vars

\* A flow mapping has been closed by FLOW-ENTRY, FLOW-MAPPING-END.
C26_Witness ==
    /\ call_state = "FLOW-MAPPING-KEY"
    /\ event.event_type = "MAPPING-END"
    /\ Len(window) = 2
    /\ window[1].token_type = "FLOW-ENTRY"

\* The latest call ran the directive processor and failed with the given
\* problem.
DirectiveProblem(p) == AtDocumentStart /\ ret = "false" /\ problem = p

\* C27 as claimed: the loop of the directive processor goes on with the
\* token that follows the directive it consumed, so its body runs once per
\* directive token of the header: a duplicate %YAML directive is reported only
\* for a header with two VERSION-DIRECTIVE tokens, and a duplicate %TAG
\* directive only for a header with two TAG-DIRECTIVE tokens of the same
\* handle.
C27_LoopOnPeekedToken ==
    /\ DirectiveProblem("found duplicate %YAML directive") =>
           Cardinality({i \in 1..Len(Header) : IsVersionDirective(Header[i])}) >= 2
    /\ DirectiveProblem("found duplicate %TAG directive") =>
           ~DistinctHandles(Header, Len(Header))

EventsEmitted ==
    emitted["STREAM-START"] + emitted["STREAM-END"] + emitted["DOCUMENT-START"]
      + emitted["DOCUMENT-END"] + emitted["ALIAS"] + emitted["SCALAR"]
      + emitted["SEQUENCE-START"] + emitted["SEQUENCE-END"]
      + emitted["MAPPING-START"] + emitted["MAPPING-END"]

\* The stream-end event has been returned and the state is END, or an error
\* is latched.
Terminal ==
    \/ emitted["STREAM-END"] = 1 /\ state = "END"
    \/ error # "NO-ERROR"

\* At most three events are returned for every token the scanner delivered.
C28_EventsBounded == EventsEmitted <= 3 * fetched

\* C28 as claimed: on every token stream the calls of next_event reach the
\* stream-end event with state END, or a latched error, after finitely many
\* calls, and the number of events returned is bounded by the number of
\* tokens (at most three per token).
C28_Terminates ==
    /\ []C28_EventsBounded
    /\ <>Terminal

\* The run ends: with the stream-end event, with a latched error, or with the
\* run-time panic that stops the program.
C28_TerminatesOrPanics == <>(Terminal \/ ret = "panic")

\* The states whose handler may pop the return state itself: the empty body
\* of a document and the end of a collection.
PoppingStates ==
    {"DOCUMENT-CONTENT", "BLOCK-NODE",
     "BLOCK-SEQUENCE-FIRST-ENTRY", "BLOCK-SEQUENCE-ENTRY",
     "INDENTLESS-SEQUENCE-ENTRY",
     "BLOCK-MAPPING-FIRST-KEY", "BLOCK-MAPPING-KEY",
     "FLOW-SEQUENCE-FIRST-ENTRY", "FLOW-SEQUENCE-ENTRY",
     "FLOW-MAPPING-FIRST-KEY", "FLOW-MAPPING-KEY"}

\* The states whose handler pops or reads a mark that an earlier call pushed.
MarkReadingStates ==
    {"BLOCK-SEQUENCE-ENTRY", "BLOCK-MAPPING-KEY", "FLOW-SEQUENCE-ENTRY",
     "FLOW-MAPPING-KEY"}

\* The latest call was stopped by the store through the nil tag_handle, on a
\* TAG token among the properties of a node.
StoppedOnTag ==
    /\ ret = "panic"
    /\ node_at > 0
    /\ window[Len(window)].token_type = "TAG"

\* C29: whatever the tokens, a handler that pops a return state runs with a
\* state on the state stack, a handler that pops or reads the mark of its
\* collection runs with that mark on the mark stack, and no call is stopped
\* by an access to the top of an empty stack (the only run-time panic is the
\* store through the nil tag_handle).
C29_StacksNeverEmpty ==
    /\ ~Finished /\ ret # "panic" /\ state \in PoppingStates => states # <<>>
    /\ ~Finished /\ ret # "panic" /\ state \in MarkReadingStates => marks # <<>>
    /\ ret = "panic" => StoppedOnTag

\* An ill-formed stream: the handler of a nested block mapping read and
\* popped its mark to report the error, the mark of the outer collection is
\* still on the stack.
C29_Witness ==
    /\ ret = "false"
    /\ problem = "did not find expected key"
    /\ Len(opened) = 2
    /\ Len(marks) = 1
    /\ states # <<>>

====
